---------------------------- MODULE Spec2Model ----------------------------
(***************************************************************************)
(* Upgrade workflow engine of nornir-cli: the per-host workflow            *)
(* transfer_and_verify_image (tasks/workflows.py), the tasks it runs       *)
(* (tasks/device_info.py, tasks/flash.py, tasks/configure.py,              *)
(* tasks/transfer.py, tasks/verify.py) and the host-state registry         *)
(* (utils/data_fields.py).                                                 *)
(*                                                                         *)
(* Strings whose contents the code inspects (file names, versions) are     *)
(* tuples of one-character strings.  Python values of the flag fields are  *)
(* the strings "True", "False", "None"; "ABSENT" is a key that is not in   *)
(* host.data.                                                              *)
(***************************************************************************)
EXTENDS Integers, Sequences, FiniteSets, TLC

(***************************************************************************)
(* Strings                                                                 *)
(***************************************************************************)

\* "c2960-17.6.2.bin"
IMG_A ==
    <<"c", "2", "9", "6", "0", "-", "1", "7", ".", "6", ".", "2", ".", "b", "i", "n">>

\* "c2960-17.6.3.bin"
IMG_B ==
    <<"c", "2", "9", "6", "0", "-", "1", "7", ".", "6", ".", "3", ".", "b", "i", "n">>

\* "c2960-152-4.E6.bin"
IMG_OLD ==
    <<"c", "2", "9", "6", "0", "-", "1", "5", "2", "-", "4", ".", "E", "6", ".", "b", "i", "n">>

\* "other.bin"
IMG_OTHER ==
    <<"o", "t", "h", "e", "r", ".", "b", "i", "n">>

\* "config.text"
FILE_TXT ==
    <<"c", "o", "n", "f", "i", "g", ".", "t", "e", "x", "t">>

\* a renamed image: "b.bin.old"
FILE_BAK ==
    <<"b", ".", "b", "i", "n", ".", "o", "l", "d">>

\* "17.6.2"
V_SIMPLE ==
    <<"1", "7", ".", "6", ".", "2">>

\* "15.2(4)E6"
V_EXT ==
    <<"1", "5", ".", "2", "(", "4", ")", "E", "6">>

\* the columns that precede the file name in a line of a text listing: "-rw "
LINE_PREFIX ==
    <<"-", "r", "w", " ">>

\* a key that is not in host.data / the Python value None, for string fields
ABSENT_S ==
    <<"<absent>">>

NONE_S ==
    <<"<none>">>

Digits ==
    {"0", "1", "2", "3", "4", "5", "6", "7", "8", "9"}

UpperCase ==
    {"A", "B", "C", "D", "E", "F", "G", "H", "I", "J", "K", "L", "M",
     "N", "O", "P", "Q", "R", "S", "T", "U", "V", "W", "X", "Y", "Z"}

WhiteSpace ==
    {" ", "\t", "\n"}

\* s[i .. i+Len(p)-1] = p
StartsAt(s, i, p) ==
    /\ i >= 1
    /\ i + Len(p) - 1 <= Len(s)
    /\ SubSeq(s, i, i + Len(p) - 1) = p

\* re.search of a literal
Contains(s, p) ==
    \E i \in 1..(Len(s) + 1) : StartsAt(s, i, p)

\* length of the greedy match of \d* at position i
RECURSIVE DigitRun(_, _)
DigitRun(s, i) ==
    IF i <= Len(s) /\ s[i] \in Digits THEN 1 + DigitRun(s, i + 1) ELSE 0

\* Python truthiness of a string value
TruthyS(s) ==
    s # ABSENT_S /\ s # NONE_S /\ s # <<>>

\* Python truthiness of a flag value
Truthy(v) ==
    v = "True"

(***************************************************************************)
(* tasks/flash.py: the image identity matcher                              *)
(***************************************************************************)

\* primary_image[:5]
Prefix5(primary_image) ==
    SubSeq(primary_image, 1, IF Len(primary_image) < 5 THEN Len(primary_image) ELSE 5)

\* the first alternative, re.escape(primary_image[:5]) + ".+", matched at i:
\* the end of the match (0: no match); "." does not match a newline
RECURSIVE DotPlusEnd(_, _)
DotPlusEnd(s, i) ==
    IF i <= Len(s) /\ s[i] # "\n" THEN DotPlusEnd(s, i + 1) ELSE i - 1

PrefixAltEnd(s, i, primary_image) ==
    LET p == Prefix5(primary_image)
        j == i + Len(p)
    IN  IF StartsAt(s, i, p) /\ j <= Len(s) /\ s[j] # "\n"
        THEN DotPlusEnd(s, j)
        ELSE 0

\* length of the greedy match of \S* at position i
RECURSIVE NonSpaceRun(_, _)
NonSpaceRun(s, i) ==
    IF i <= Len(s) /\ s[i] \notin WhiteSpace THEN 1 + NonSpaceRun(s, i + 1) ELSE 0

\* the second alternative, \S+.bin, matched at i: the end of the match
\* (0: no match); \S+ is greedy and backtracks, so the longest match wins
BinAltEnd(s, i) ==
    LET run == NonSpaceRun(s, i)
        ends == {k \in 1..Len(s) :
                    \E n \in 1..run :
                        /\ k = i + n + 3
                        /\ s[i + n] # "\n"
                        /\ StartsAt(s, i + n + 1, <<"b", "i", "n">>)}
    IN  IF ends = {} THEN 0 ELSE CHOOSE k \in ends : \A m \in ends : m <= k

\* _create_image_regex(primary_image) matched at position i of s: the end of
\* the match, 0 when there is none (the first alternative is tried first)
_create_image_regex(s, i, primary_image) ==
    IF PrefixAltEnd(s, i, primary_image) # 0
    THEN PrefixAltEnd(s, i, primary_image)
    ELSE BinAltEnd(s, i)

\* re.match(compiled_regex, name)
ReMatch(name, primary_image) ==
    _create_image_regex(name, 1, primary_image) # 0

\* compiled_regex.finditer(text): the matched strings, leftmost first,
\* non-overlapping
RECURSIVE FindIter(_, _, _)
FindIter(s, i, primary_image) ==
    IF i > Len(s) THEN {}
    ELSE LET e == _create_image_regex(s, i, primary_image)
         IN  IF e = 0
             THEN FindIter(s, i + 1, primary_image)
             ELSE {SubSeq(s, i, e)} \cup FindIter(s, e + 1, primary_image)

\* the groups of the extended form (\d+)\.(\d+)\((\d+)\)([A-Z])(\d+) matched
\* at the start of version; ok = FALSE when it does not match
ExtendedMatch(version) ==
    LET n1 == DigitRun(version, 1)
        p2 == n1 + 2
        n2 == DigitRun(version, p2)
        p3 == p2 + n2 + 1
        n3 == DigitRun(version, p3)
        pT == p3 + n3 + 1
        p5 == pT + 1
        n5 == DigitRun(version, p5)
        ok == /\ n1 >= 1
              /\ StartsAt(version, n1 + 1, <<".">>)
              /\ n2 >= 1
              /\ StartsAt(version, p2 + n2, <<"(">>)
              /\ n3 >= 1
              /\ StartsAt(version, p3 + n3, <<")">>)
              /\ pT <= Len(version)
              /\ version[pT] \in UpperCase
              /\ n5 >= 1
    IN  IF ok
        THEN [ok |-> TRUE,
              major |-> SubSeq(version, 1, n1),
              minor |-> SubSeq(version, p2, p2 + n2 - 1),
              patch |-> SubSeq(version, p3, p3 + n3 - 1),
              train |-> <<version[pT]>>,
              train_num |-> SubSeq(version, p5, p5 + n5 - 1)]
        ELSE [ok |-> FALSE, major |-> <<>>, minor |-> <<>>, patch |-> <<>>,
              train |-> <<>>, train_num |-> <<>>]

\* the groups of the simple form (\d+)\.(\d+)\.(\d+) matched at the start
SimpleMatch(version) ==
    LET n1 == DigitRun(version, 1)
        p2 == n1 + 2
        n2 == DigitRun(version, p2)
        p3 == p2 + n2 + 1
        n3 == DigitRun(version, p3)
        ok == /\ n1 >= 1
              /\ StartsAt(version, n1 + 1, <<".">>)
              /\ n2 >= 1
              /\ StartsAt(version, p2 + n2, <<".">>)
              /\ n3 >= 1
    IN  IF ok
        THEN [ok |-> TRUE,
              major |-> SubSeq(version, 1, n1),
              minor |-> SubSeq(version, p2, p2 + n2 - 1),
              patch |-> SubSeq(version, p3, p3 + n3 - 1)]
        ELSE [ok |-> FALSE, major |-> <<>>, minor |-> <<>>, patch |-> <<>>]

\* a variant without the lookahead (?!\d)
SimplePatternFound_no_lookahead(m, target) ==
    LET head == m.major \o <<".">> \o m.minor \o <<".">>
    IN  \E i \in 1..Len(target) :
            /\ StartsAt(target, i, head)
            /\ \/ StartsAt(target, i + Len(head), <<"0">> \o m.patch)
               \/ StartsAt(target, i + Len(head), m.patch)

\* re.search of  major\.minor\.0?patch(?!\d)
SimplePatternFound(m, target) ==
    LET head == m.major \o <<".">> \o m.minor \o <<".">>
        NoDigitAt(k) == ~(k <= Len(target) /\ target[k] \in Digits)
    IN  \E i \in 1..Len(target) :
            /\ StartsAt(target, i, head)
            /\ \/ /\ StartsAt(target, i + Len(head), <<"0">> \o m.patch)
                  /\ NoDigitAt(i + Len(head) + 1 + Len(m.patch))
               \/ /\ StartsAt(target, i + Len(head), m.patch)
                  /\ NoDigitAt(i + Len(head) + Len(m.patch))

_match_ios_version(version, target_string) ==
    IF ~TruthyS(version) \/ ~TruthyS(target_string) THEN FALSE
    ELSE LET e == ExtendedMatch(version)
             s == SimpleMatch(version)
         IN  IF e.ok
             THEN \/ Contains(target_string,
                              e.major \o <<".">> \o e.minor \o <<"(">> \o e.patch
                                \o <<")">> \o e.train \o e.train_num)
                  \/ Contains(target_string,
                              e.major \o e.minor \o <<"-">> \o e.patch \o <<".">>
                                \o e.train \o e.train_num)
             ELSE IF ~s.ok THEN FALSE
             ELSE SimplePatternFound(s, target_string)

\* a variant that relies on the version match to keep the running image
_should_delete_image_by_version(name, primary_image, current_image, ios_version) ==
    /\ name # primary_image
    /\ ~_match_ios_version(ios_version, name)

_should_delete_image(name, primary_image, current_image, ios_version) ==
    /\ name # primary_image
    /\ name # current_image
    /\ ~_match_ios_version(ios_version, name)

(***************************************************************************)
(* utils/data_fields.py: the host-state registry                           *)
(***************************************************************************)

\* is_not_empty_string: bool(value.strip())
is_not_empty_string(s) ==
    /\ s # ABSENT_S
    /\ s # NONE_S
    /\ \E i \in 1..Len(s) : s[i] \notin WhiteSpace

\* isinstance(value, bool)
IsBool(v) ==
    v \in {"True", "False"}

\* StackInfoFields.validate_dict: every declared key that is in the dict must
\* validate (is_stack: bool, stack_members: list, stack_master: non-empty
\* str, target_in_flash: bool, where the tasks store a list)
StackInfoFields_validate_dict(si) ==
    /\ si.present
    /\ IsBool(si.is_stack)
    /\ ~si.members_none
    /\ si.master # "None"
    /\ ~si.target_in_flash.present

\* Python values by type: None, bool, int, str (a sequence of characters),
\* list, dict (a function from its keys)
PyNone ==
    [t |-> "NoneType"]

PyBool(b) ==
    [t |-> "bool", b |-> b]

PyInt(n) ==
    [t |-> "int", n |-> n]

PyStr(s) ==
    [t |-> "str", s |-> s]

PyList(l) ==
    [t |-> "list", l |-> l]

PyDict(items) ==
    [t |-> "dict", items |-> items]

\* isinstance(value, t); bool is a subclass of int
isinstance(value, t) ==
    \/ value.t = t
    \/ t = "int" /\ value.t = "bool"

\* is_positive_integer: isinstance(value, int) and value > 0 (True is 1)
is_positive_integer(value) ==
    /\ isinstance(value, "int")
    /\ (IF value.t = "bool" THEN (IF value.b THEN 1 ELSE 0) ELSE value.n) > 0

\* validator(value) for the validators of the catalogue
ApplyValidator(validator, value) ==
    CASE validator = "is_not_empty_string" ->
             value.t = "str" /\ is_not_empty_string(value.s)
      [] validator = "is_positive_integer" -> is_positive_integer(value)

\* DataField(name, t, validators); validators None is the empty list
DataField(name, t, validators) ==
    [name |-> name, t |-> t, validators |-> validators]

\* the subclasses of NestedDataFields that are modelled
NestedDataFields ==
    {"StackInfoFields", "ManufacturerFields", "DeviceTypeFields", "PlatformFields"}

\* cls.get_data_fields(): the DataField attributes of the class
get_data_fields(cls) ==
    CASE cls = "StackInfoFields" ->
             { DataField("is_stack", "bool", <<>>),
               DataField("stack_members", "list", <<>>),
               DataField("stack_master", "str", <<"is_not_empty_string">>),
               DataField("target_in_flash", "bool", <<>>) }
      [] cls = "ManufacturerFields" ->
             { DataField("id", "int", <<"is_positive_integer">>),
               DataField("name", "str", <<"is_not_empty_string">>),
               DataField("description", "str", <<>>) }
      [] cls = "DeviceTypeFields" ->
             { DataField("model", "str", <<"is_not_empty_string">>),
               DataField("manufacturer", "ManufacturerFields", <<>>) }
      [] cls = "PlatformFields" ->
             { DataField("id", "int", <<"is_positive_integer">>),
               DataField("name", "str", <<"is_not_empty_string">>),
               DataField("slug", "str", <<"is_not_empty_string">>),
               DataField("display", "str", <<"is_not_empty_string">>),
               DataField("description", "str", <<>>),
               DataField("url", "str", <<"is_not_empty_string">>) }

RECURSIVE validate(_, _), validate_dict(_, _)

\* a variant that accepts a dict only if it has no key outside the
\* declared ones
validate_dict_known_keys(cls, value) ==
    IF value.t # "dict"
    THEN FALSE
    ELSE \A field_name \in DOMAIN value.items :
             \E f \in get_data_fields(cls) :
                 f.name = field_name /\ validate(f, value.items[field_name])

\* NestedDataFields.validate_dict(value)
validate_dict(cls, value) ==
    IF value.t # "dict"
    THEN FALSE
    ELSE \A field_name \in DOMAIN value.items :
             \A f \in get_data_fields(cls) :
                 f.name = field_name => validate(f, value.items[field_name])

\* DataField.validate(value)
validate(field, value) ==
    IF field.t \in NestedDataFields
    THEN validate_dict(field.t, value)
    ELSE IF ~isinstance(value, field.t)
    THEN FALSE
    ELSE \A i \in 1..Len(field.validators) : ApplyValidator(field.validators[i], value)

\* var.name in host.data, for the declared fields the tasks request
FieldPresent(d, name) ==
    CASE name = "primary_image" -> d.primary_image # ABSENT_S
      [] name = "current_image" -> d.current_image # ABSENT_S
      [] name = "ios_version" -> d.ios_version # ABSENT_S
      [] name = "stack_info" -> d.stack_info.present
      [] name = "images_to_delete" -> d.images_to_delete.present
      [] name = "reload_time" -> d.reload_time # ABSENT_S
      [] name = "platform" -> d.platform.t # "absent"
      [] OTHER -> d[name] # "ABSENT"

\* DataField.validate(value) for the declared fields the tasks request
DataField_validate(d, name) ==
    CASE name = "primary_image" -> is_not_empty_string(d.primary_image)
      [] name = "current_image" -> is_not_empty_string(d.current_image)
      [] name = "ios_version" -> is_not_empty_string(d.ios_version)
      [] name = "stack_info" -> StackInfoFields_validate_dict(d.stack_info)
      [] name = "images_to_delete" -> FALSE   \* declared list, stored as a set
      [] name = "primary_image_md5" -> d.primary_image_md5 \notin {"ABSENT", "None"}
      [] name = "reload_time" ->
             validate(DataField("reload_time", "int", <<"is_positive_integer">>),
                      PyStr(d.reload_time))
      [] name = "platform" ->
             validate(DataField("platform", "PlatformFields", <<>>), d.platform)
      [] OTHER -> IsBool(d[name])

\* a requested variable: a DataField of the catalogue, or a plain str
Field(name) ==
    [name |-> name, datafield |-> TRUE]

PlainStr(name) ==
    [name |-> name, datafield |-> FALSE]

\* get_required_host_vars(host, required_vars): the flag and the length of
\* the returned list; a plain str has no attribute "name" (AttributeError).
\* A missing or invalid entry is skipped, not appended.
get_required_host_vars(d, required_vars) ==
    LET idx == 1..Len(required_vars)
        good == {i \in idx : /\ FieldPresent(d, required_vars[i].name)
                             /\ DataField_validate(d, required_vars[i].name)}
    IN  IF \E i \in idx : ~required_vars[i].datafield
        THEN [exc |-> "AttributeError", success |-> FALSE, len |-> 0]
        ELSE [exc |-> "none", success |-> (good = idx), len |-> 1 + Cardinality(good)]

\* "success, a, b, ... = get_required_host_vars(...)" with n names after the
\* flag: the exception the statement raises ("none": it does not raise)
Unpack(r, n) ==
    IF r.exc # "none" THEN r.exc
    ELSE IF r.len # n + 1 THEN "ValueError"
    ELSE "none"

(***************************************************************************)
(* utils/validators.py: the reload date                                    *)
(***************************************************************************)

LowerCase ==
    <<"a", "b", "c", "d", "e", "f", "g", "h", "i", "j", "k", "l", "m",
      "n", "o", "p", "q", "r", "s", "t", "u", "v", "w", "x", "y", "z">>

UpperCaseSeq ==
    <<"A", "B", "C", "D", "E", "F", "G", "H", "I", "J", "K", "L", "M",
      "N", "O", "P", "Q", "R", "S", "T", "U", "V", "W", "X", "Y", "Z">>

\* str.lower()
lower(s) ==
    [i \in 1..Len(s) |->
        IF s[i] \in UpperCase
        THEN LowerCase[CHOOSE k \in 1..26 : UpperCaseSeq[k] = s[i]]
        ELSE s[i]]

\* str.strip()
RECURSIVE strip(_)
strip(s) ==
    IF s = <<>> THEN s
    ELSE IF Head(s) \in WhiteSpace THEN strip(Tail(s))
    ELSE IF s[Len(s)] \in WhiteSpace THEN strip(SubSeq(s, 1, Len(s) - 1))
    ELSE s

\* str.split(): the maximal runs of characters that are not whitespace
RECURSIVE split(_)
split(s) ==
    LET t == strip(s)
        n == NonSpaceRun(t, 1)
    IN  IF t = <<>> THEN <<>>
        ELSE <<SubSeq(t, 1, n)>> \o split(SubSeq(t, n + 1, Len(t)))

\* int() of a decimal digit
DigitValue(c) ==
    CHOOSE n \in 0..9 : Digits \cap {c} = {ToString(n)}

MonthNames ==
    { <<"j", "a", "n">>, <<"f", "e", "b">>, <<"m", "a", "r">>, <<"a", "p", "r">>,
      <<"m", "a", "y">>, <<"j", "u", "n">>, <<"j", "u", "l">>, <<"a", "u", "g">>,
      <<"s", "e", "p">>, <<"o", "c", "t">>, <<"n", "o", "v">>, <<"d", "e", "c">> }

\* reload_regex.match(s):
\* ^([01]\d|2[0-3]):([0-5]\d)\s([0-2]\d|3[01])\s(jan|...|dec)$
reload_regex(s) ==
    /\ Len(s) = 12
    /\ \/ s[1] \in {"0", "1"} /\ s[2] \in Digits
       \/ s[1] = "2" /\ s[2] \in {"0", "1", "2", "3"}
    /\ s[3] = ":"
    /\ s[4] \in {"0", "1", "2", "3", "4", "5"}
    /\ s[5] \in Digits
    /\ s[6] \in WhiteSpace
    /\ \/ s[7] \in {"0", "1", "2"} /\ s[8] \in Digits
       \/ s[7] = "3" /\ s[8] \in {"0", "1"}
    /\ s[9] \in WhiteSpace
    /\ SubSeq(s, 10, 12) \in MonthNames

\* validate_reload_date(reload_date)
validate_reload_date(reload_date) ==
    LET s == lower(strip(reload_date))
        day == 10 * DigitValue(s[7]) + DigitValue(s[8])
        month == SubSeq(s, 10, 12)
    IN  IF reload_regex(s)
        THEN /\ day <= 31
             /\ ~(month \in {<<"a", "p", "r">>, <<"j", "u", "n">>, <<"s", "e", "p">>,
                             <<"n", "o", "v">>} /\ day > 30)
             /\ ~(month = <<"f", "e", "b">> /\ day > 29)
        ELSE FALSE

(***************************************************************************)
(* State                                                                   *)
(***************************************************************************)

VARIABLES
    data,            \* task.host.data: the HostState of the host
    host,            \* inventory attributes of the host (never change)
    dev,             \* the device: flash contents, running image, version
    pc,              \* position of the workflow; "idle" between commands
    skip_dns_check,  \* parameter of the running workflow
    exc,             \* an exception is propagating out of the workflow
    runLog,          \* commands sent by the running workflow or the last command
    trace,           \* steps executed by the running workflow
    closed,          \* close_connections() calls of the current (last) run
    outcome,         \* how the last workflow run or command ended
    data0,           \* data when the running workflow began
    envFault,        \* the device misbehaved in this run (see Eff)
    flashFound,      \* the flash check of this run found the primary image
    lastOp,          \* the operation that made the last step
    cli,             \* workflow runs and tasks the operator has started
    turn,            \* the host whose worker runs; its state is in the variables above
    parked,          \* the states of the hosts whose workers wait, by host
    tacacs           \* the credential workflow: its position and the hosts' credentials

vars ==
    <<data, host, dev, pc, skip_dns_check, exc, runLog, trace, closed,
      outcome, data0, envFault, flashFound, lastOp, cli, turn, parked, tacacs>>

\* the credential workflow has not been started
NoTacacs ==
    [phase |-> "none"]

\* a variant in which the workers write to one host state
OwnHostOnly_shared_data ==
    /\ UNCHANGED <<turn, tacacs>>
    /\ parked' = [h \in DOMAIN parked |-> [parked[h] EXCEPT !.data = data']]

\* task.host is the host of the worker that runs the task: a step of a task
\* leaves the hosts of the other workers, and the credential workflow, as
\* they are
OwnHostOnly ==
    UNCHANGED <<turn, parked, tacacs>>

\* the workflow runs and tasks the operator starts in a session
MaxCommands ==
    2

\* member ids as "show switch" reports them
MemberIds ==
    {"1", "2", "3"}

\* no key target_in_flash in the dict
NotListed ==
    [present |-> FALSE, l |-> <<>>]

NoStackInfo ==
    [present |-> FALSE, is_stack |-> "None", members_none |-> TRUE,
     members |-> <<>>, master |-> "None", target_in_flash |-> NotListed]

\* {IS_STACK: False, MEMBERS: None, MASTER: None}
NotAStack ==
    [present |-> TRUE, is_stack |-> "False", members_none |-> TRUE,
     members |-> <<>>, master |-> "None", target_in_flash |-> NotListed]

\* the inventory's "platform" entry: none, the name of the platform, or the
\* mapping NetBox delivers
NoPlatform ==
    [t |-> "absent"]

PlatformName ==
    PyStr(<<"i", "o", "s">>)

PlatformDict ==
    PyDict([id |-> PyInt(1), name |-> PyStr(<<"i", "o", "s">>),
            slug |-> PyStr(<<"i", "o", "s">>)])

EmptyData ==
    [auth_status |-> "ABSENT",
     hostname_verified |-> "ABSENT",
     dns_ip |-> "ABSENT",
     stack_info |-> NoStackInfo,
     current_image |-> ABSENT_S,
     is_at_target |-> "ABSENT",
     primary_image |-> ABSENT_S,
     primary_image_md5 |-> "ABSENT",
     primary_image_in_flash |-> "ABSENT",
     primary_image_md5_verified |-> "ABSENT",
     ios_version |-> ABSENT_S,
     images_to_delete |-> [present |-> FALSE, v |-> {}],
     scp_enabled |-> "ABSENT",
     supports_ssh_bulk_mode |-> "ABSENT",
     ssh_bulk_mode |-> "ABSENT",
     boot_statement_set |-> "ABSENT",
     reload_time |-> ABSENT_S,
     reload_set |-> "ABSENT",
     platform |-> NoPlatform]

\* "show switch" outputs: genie-parsed output["switch"]["stack"] in listing
\* order, or the text a device without stacking answers
Sw(num, role, state) ==
    [num |-> num, role |-> role, state |-> state]

SwText(text) ==
    [is_str |-> TRUE, text |-> text, stack |-> <<>>]

SwParsed(stack) ==
    [is_str |-> FALSE, text |-> "", stack |-> stack]

\* the hosts: inventory attributes ("cir" in the name, "2960" in the model,
\* an address in the inventory) and what the device answers to "show switch";
\* the last one is a stack of two in which no member has the master role
Hosts ==
    { [is_router |-> FALSE, model2960 |-> TRUE, has_ip |-> TRUE,
       show_switch |-> SwParsed(<<Sw("1", "active", "ready")>>)],
      [is_router |-> FALSE, model2960 |-> TRUE, has_ip |-> TRUE,
       show_switch |-> SwParsed(<<Sw("1", "master", "ready"), Sw("2", "member", "ready")>>)],
      [is_router |-> FALSE, model2960 |-> FALSE, has_ip |-> FALSE,
       show_switch |-> SwParsed(<<Sw("1", "member", "ready"), Sw("2", "master", "ready"),
                                  Sw("3", "member", "provisioned")>>)],
      [is_router |-> FALSE, model2960 |-> FALSE, has_ip |-> FALSE,
       show_switch |-> SwText("invalid input")],
      [is_router |-> TRUE, model2960 |-> FALSE, has_ip |-> TRUE,
       show_switch |-> SwText("invalid input")],
      [is_router |-> FALSE, model2960 |-> TRUE, has_ip |-> TRUE,
       show_switch |-> SwParsed(<<Sw("1", "member", "ready"), Sw("2", "standby", "ready")>>)] }

\* file names a flash may hold, and the target images of the groups
FlashFiles ==
    {IMG_A, IMG_B, IMG_OLD, IMG_OTHER, FILE_TXT, FILE_BAK}

TargetImages ==
    {IMG_A, IMG_B}

\* the devices: the files in flash, the running image, the version reported
Devices ==
    { [flash |-> {IMG_OLD, FILE_TXT}, running |-> IMG_OLD, os_version |-> V_EXT],
      [flash |-> {IMG_A, IMG_OLD, IMG_OTHER}, running |-> IMG_OLD, os_version |-> V_EXT],
      [flash |-> {IMG_A, IMG_OLD, IMG_OTHER}, running |-> IMG_A, os_version |-> V_SIMPLE],
      [flash |-> {IMG_A, IMG_B, IMG_OTHER, FILE_BAK}, running |-> IMG_OTHER,
       os_version |-> V_EXT] }

\* the inventory: the stack of two with a master is studied on every
\* device that holds a target image, the other hosts on the device that has
\* the whole upgrade ahead of it
Inventory ==
    { <<h, dv>> \in Hosts \X Devices :
         IF /\ ~h.show_switch.is_str
            /\ Len(h.show_switch.stack) = 2
            /\ \E i \in 1..2 : h.show_switch.stack[i].role = "master"
         THEN dv.flash # {IMG_OLD, FILE_TXT}
         ELSE dv.flash = {IMG_OLD, FILE_TXT} }

Init ==
    /\ data = EmptyData
    /\ \E hd \in Inventory :
        LET h == hd[1]
            dv == hd[2]
        IN
          /\ host = [is_router |-> h.is_router, model2960 |-> h.model2960,
                     has_ip |-> h.has_ip]
          /\ dev = [show_switch |-> h.show_switch,
                    flash |-> [m \in MemberIds |->
                                 IF m \in {h.show_switch.stack[i].num :
                                             i \in {k \in 1..Len(h.show_switch.stack) :
                                               h.show_switch.stack[k].state # "provisioned"}}
                                    \/ m = "1"
                                 THEN dv.flash ELSE {}],
                    running |-> dv.running,
                    os_version |-> dv.os_version,
                    boot |-> {dv.running},
                    reload_at |-> ABSENT_S]
    /\ pc = "idle"
    /\ skip_dns_check = FALSE
    /\ exc = FALSE
    /\ runLog = <<>>
    /\ trace = <<>>
    /\ closed = 0
    /\ outcome = "none"
    /\ data0 = EmptyData
    /\ envFault = FALSE
    /\ flashFound = FALSE
    /\ lastOp = "init"
    /\ cli = 0
    /\ turn = "A"
    /\ parked = <<>>
    /\ tacacs = NoTacacs

(***************************************************************************)
(* Commands sent to the device and the result of a task                    *)
(***************************************************************************)

\* kinds: "read" (show, dir, verify, get_facts), "config", "delete",
\* "transfer", "copy", "answer".  guard: the values of the host state the
\* task compared before it sent the command (for a transfer also whether
\* the device already held the file)
Cmd(kind, cmd, flash, file, guard) ==
    [kind |-> kind, cmd |-> cmd, flash |-> flash, file |-> file, guard |-> guard]

ReadCmd(cmd) ==
    Cmd("read", cmd, "", <<>>, <<>>)

\* what a task did: the HostState it leaves, the commands it sent, whether it
\* raised (task.run then raises NornirSubTaskError in the caller), and
\* whether the device misbehaved: a command or the transfer failed, a
\* listing came in a shape the task does not handle, or the checksum the
\* device computed is not the expected one
Eff(d, cmds, raised, fault) ==
    [d |-> d, cmds |-> cmds, raised |-> raised, fault |-> fault]

\* tasks/shared.py: "flash{num}" for a 2960, "flash-{num}" otherwise
stack_flash_format(num) ==
    IF host.model2960 THEN <<"flash", num>> ELSE <<"flash-", num>>

\* the member whose flash "flash:" names: the master of the stack
DevMaster ==
    LET st == dev.show_switch.stack
        ms == {i \in 1..Len(st) : st[i].role \in {"master", "active"}}
    IN  IF ms = {} THEN "1" ELSE st[CHOOSE i \in ms : \A j \in ms : i <= j].num

\* the flash unit a command names: "flash:" or a member's flashN / flash-N
FlashOf(flash) ==
    IF flash = <<"flash:">> THEN dev.flash[DevMaster] ELSE dev.flash[flash[2]]

(***************************************************************************)
(* tasks/device_info.py                                                    *)
(***************************************************************************)

\* is_router: "cir" in host.name
is_router ==
    host.is_router

\* a variant that keeps the provisioned switches
ActiveSwitches_with_provisioned(stack) ==
    stack

\* the switches of the output that are not "provisioned", in listing order
ActiveSwitches(stack) ==
    SelectSeq(stack, LAMBDA sw : sw.state # "provisioned")

\* the first active switch whose role is master or active ("None": no such)
FirstMaster(active) ==
    LET ms == {i \in 1..Len(active) : active[i].role \in {"master", "active"}}
    IN  IF ms = {} THEN "None" ELSE active[CHOOSE i \in ms : \A j \in ms : i <= j].num

\* the stack_info that get_stack_info builds from a parsed "show switch"
StackInfoFrom(stack) ==
    LET active == ActiveSwitches(stack)
    IN  IF Len(active) <= 1
        THEN NotAStack
        ELSE [present |-> TRUE, is_stack |-> "True", members_none |-> FALSE,
              members |-> [i \in 1..Len(active) |-> active[i].num],
              master |-> FirstMaster(active), target_in_flash |-> NotListed]

\* a variant that resolves the stack again although stack_info is recorded
get_stack_info_eff_always(d, force, ok) ==
    IF is_router
    THEN Eff([d EXCEPT !.stack_info = NotAStack], <<>>, FALSE, FALSE)
    ELSE IF ~ok
    THEN Eff(d, <<ReadCmd("show switch")>>, TRUE, TRUE)
    ELSE IF dev.show_switch.is_str
    THEN IF dev.show_switch.text = "invalid input" \/ dev.show_switch.text = ""
         THEN Eff([d EXCEPT !.stack_info = NotAStack],
                  <<ReadCmd("show switch")>>, FALSE, FALSE)
         ELSE Eff(d, <<ReadCmd("show switch")>>, FALSE, FALSE)
    ELSE Eff([d EXCEPT !.stack_info = StackInfoFrom(dev.show_switch.stack)],
             <<ReadCmd("show switch")>>, FALSE, FALSE)

\* get_stack_info(task, force, filters=[is_router]); ok: "show switch" did
\* not fail
get_stack_info_eff(d, force, ok) ==
    IF ~force /\ d.stack_info.present
    THEN Eff(d, <<>>, FALSE, FALSE)
    ELSE IF is_router
    THEN Eff([d EXCEPT !.stack_info = NotAStack], <<>>, FALSE, FALSE)
    ELSE IF ~ok
    THEN Eff(d, <<ReadCmd("show switch")>>, TRUE, TRUE)
    ELSE IF dev.show_switch.is_str
    THEN IF dev.show_switch.text = "invalid input" \/ dev.show_switch.text = ""
         THEN Eff([d EXCEPT !.stack_info = NotAStack],
                  <<ReadCmd("show switch")>>, FALSE, FALSE)
         ELSE Eff(d, <<ReadCmd("show switch")>>, FALSE, FALSE)
    ELSE Eff([d EXCEPT !.stack_info = StackInfoFrom(dev.show_switch.stack)],
             <<ReadCmd("show switch")>>, FALSE, FALSE)

\* get_ios_version(task)
get_ios_version_eff(d, ok) ==
    IF ~ok
    THEN Eff(d, <<ReadCmd("get_facts")>>, TRUE, TRUE)
    ELSE Eff([d EXCEPT !.ios_version = dev.os_version],
             <<ReadCmd("get_facts")>>, FALSE, FALSE)

\* primary_image and primary_image == image_name
IsAtTargetValue(primary_image, image_name) ==
    IF ~TruthyS(primary_image) THEN "None"
    ELSE IF primary_image = image_name THEN "True" ELSE "False"

\* a variant that removes is_at_target when the device runs another image
get_current_image_eff_pops_flag(d, force, ok) ==
    IF ~force /\ d.current_image \notin {ABSENT_S, NONE_S}
    THEN Eff(d, <<>>, FALSE, FALSE)
    ELSE IF ~ok
    THEN Eff(d, <<ReadCmd("show version | include image")>>, TRUE, TRUE)
    ELSE Eff([d EXCEPT !.current_image = dev.running,
                       !.is_at_target =
                           IF IsAtTargetValue(d.primary_image, dev.running) = "False"
                           THEN "ABSENT"
                           ELSE IsAtTargetValue(d.primary_image, dev.running)],
             <<ReadCmd("show version | include image")>>, FALSE, FALSE)

\* get_current_image(task, force)
get_current_image_eff(d, force, ok) ==
    IF ~force /\ d.current_image \notin {ABSENT_S, NONE_S}
    THEN Eff(d, <<>>, FALSE, FALSE)
    ELSE IF ~ok
    THEN Eff(d, <<ReadCmd("show version | include image")>>, TRUE, TRUE)
    ELSE Eff([d EXCEPT !.current_image = dev.running,
                       !.is_at_target = IsAtTargetValue(d.primary_image, dev.running)],
             <<ReadCmd("show version | include image")>>, FALSE, FALSE)

(***************************************************************************)
(* tasks/flash.py: flash check and cleanup planning                        *)
(***************************************************************************)

\* is_primary_image_in_flash(task, force); form: the shape of the "dir"
\* result ("dict": parsed with a files key; "nofiles": parsed without one;
\* "text": unparsed)
is_primary_image_in_flash_eff(d, force, ok, form) ==
    IF ~force /\ Truthy(d.primary_image_in_flash)
    THEN Eff(d, <<>>, FALSE, FALSE)
    ELSE IF Unpack(get_required_host_vars(d, <<Field("primary_image")>>), 1) # "none"
    THEN Eff(d, <<>>, TRUE, FALSE)
    ELSE IF ~ok
    THEN Eff(d, <<ReadCmd("dir")>>, TRUE, TRUE)
    ELSE IF form # "dict"
    THEN Eff(d, <<ReadCmd("dir")>>, TRUE, TRUE)
    ELSE Eff([d EXCEPT !.primary_image_in_flash =
                  IF d.primary_image \in FlashOf(<<"flash:">>) THEN "True" ELSE "False"],
             <<ReadCmd("dir")>>, FALSE, FALSE)

\* the lines of a text listing of the files
TextOf(files) ==
    {LINE_PREFIX \o f : f \in files}

\* what _process_netmiko_result records for one file of a listing: from a
\* dict or a list the name, if re.match finds an image at its start; from
\* text the matches finditer finds in the file's line; each unless
\* _should_delete_image rejects it
ImagesOfFile(f, text, primary_image, current_image, ios_version) ==
    IF text
    THEN {name \in UNION {FindIter(line, 1, primary_image) : line \in TextOf({f})} :
             _should_delete_image(name, primary_image, current_image, ios_version)}
    ELSE {name \in {f} :
             /\ ReMatch(name, primary_image)
             /\ _should_delete_image(name, primary_image, current_image, ios_version)}

\* the running images and the versions of the devices
RunningImages ==
    {dv.running : dv \in Devices}

OsVersions ==
    {dv.os_version : dv \in Devices}

\* ImagesOfFile for the files, target images, running images and versions
\* of the inventory, computed once
ImagesOfFileTable ==
    [f \in FlashFiles |-> [text \in BOOLEAN |-> [primary_image \in TargetImages |->
        [current_image \in RunningImages |-> [ios_version \in OsVersions |->
            ImagesOfFile(f, text, primary_image, current_image, ios_version)]]]]]

\* _process_netmiko_result: the images to delete among the files of one
\* listing, which arrives as a dict, a list or text
_process_netmiko_result(files, form, primary_image, current_image, ios_version) ==
    IF /\ files \subseteq FlashFiles
       /\ primary_image \in TargetImages
       /\ current_image \in RunningImages
       /\ ios_version \in OsVersions
    THEN UNION {ImagesOfFileTable[f][form = "text"][primary_image][current_image][ios_version] :
                   f \in files}
    ELSE UNION {ImagesOfFile(f, form = "text", primary_image, current_image, ios_version) :
                   f \in files}

\* the flash units get_images_to_delete lists
ListedFlashes(si) ==
    IF si.is_stack = "True"
    THEN [i \in 1..Len(si.members) |-> stack_flash_format(si.members[i])]
    ELSE <<<<"flash:">>>>

ShowFlashCmds(flashes, n) ==
    [i \in 1..n |-> Cmd("read", "show flash", flashes[i], <<>>, <<>>)]

\* a variant that also records that the primary image is not in flash
get_images_to_delete_eff_clears_flash_check(d, failAt, form) ==
    LET r == get_required_host_vars(d, <<Field("primary_image"), Field("current_image"),
                                         Field("ios_version"), Field("stack_info")>>)
        flashes == ListedFlashes(d.stack_info)
        images == UNION {_process_netmiko_result(FlashOf(flashes[i]), form,
                              d.primary_image, d.current_image, d.ios_version) :
                          i \in 1..Len(flashes)}
    IN  IF Unpack(r, 4) # "none"
        THEN Eff(d, <<>>, TRUE, FALSE)
        ELSE IF failAt \in 1..Len(flashes)
        THEN Eff(d, ShowFlashCmds(flashes, failAt), TRUE, TRUE)
        ELSE IF form = "nofiles"
        THEN Eff(d, ShowFlashCmds(flashes, 1), TRUE, TRUE)
        ELSE Eff([d EXCEPT !.images_to_delete = [present |-> TRUE, v |-> images],
                           !.primary_image_in_flash = "False"],
                 ShowFlashCmds(flashes, Len(flashes)), FALSE, FALSE)

\* get_images_to_delete(task); failAt: the listing command that fails (0:
\* none); form: the shape of the results
get_images_to_delete_eff(d, failAt, form) ==
    LET r == get_required_host_vars(d, <<Field("primary_image"), Field("current_image"),
                                         Field("ios_version"), Field("stack_info")>>)
        flashes == ListedFlashes(d.stack_info)
        images == UNION {_process_netmiko_result(FlashOf(flashes[i]), form,
                              d.primary_image, d.current_image, d.ios_version) :
                          i \in 1..Len(flashes)}
    IN  IF Unpack(r, 4) # "none"
        THEN Eff(d, <<>>, TRUE, FALSE)
        ELSE IF failAt \in 1..Len(flashes)
        THEN Eff(d, ShowFlashCmds(flashes, failAt), TRUE, TRUE)
        ELSE IF form = "nofiles"
        THEN Eff(d, ShowFlashCmds(flashes, 1), TRUE, TRUE)
        ELSE Eff([d EXCEPT !.images_to_delete = [present |-> TRUE, v |-> images]],
                 ShowFlashCmds(flashes, Len(flashes)), FALSE, FALSE)

(***************************************************************************)
(* tasks/flash.py: cleanup execution and stack propagation                 *)
(***************************************************************************)

\* the elements of a set in the order a loop visits them
RECURSIVE SetToSeq(_)
SetToSeq(S) ==
    IF S = {} THEN <<>>
    ELSE LET x == CHOOSE y \in S : TRUE IN <<x>> \o SetToSeq(S \ {x})

RECURSIVE Concat(_)
Concat(ss) ==
    IF ss = <<>> THEN <<>> ELSE Head(ss) \o Concat(Tail(ss))

\* the final guard of delete_unused_images: image != primary_image and
\* image != current_image, both read from the host at that moment
DeleteGuard(image, d) ==
    image # d.primary_image /\ image # d.current_image

\* the delete commands of the loops of delete_unused_images, in order
DeleteCmds(d) ==
    LET flashes == ListedFlashes(d.stack_info)
        images == SelectSeq(SetToSeq(d.images_to_delete.v),
                            LAMBDA image : DeleteGuard(image, d))
    IN  Concat([i \in 1..Len(flashes) |->
                  [j \in 1..Len(images) |->
                      Cmd("delete", "delete /recursive /force", flashes[i], images[j],
                          <<d.primary_image, d.current_image>>)]])

\* a variant whose lookup works and that deletes every planned image
delete_unused_images_eff_unguarded(d, failAt) ==
    LET flashes == ListedFlashes(d.stack_info)
        images == SetToSeq(d.images_to_delete.v)
        cmds == Concat([i \in 1..Len(flashes) |->
                          [j \in 1..Len(images) |->
                              Cmd("delete", "delete /recursive /force", flashes[i],
                                  images[j], <<d.primary_image, d.current_image>>)]])
    IN  IF ~d.images_to_delete.present \/ ~StackInfoFields_validate_dict(d.stack_info)
        THEN Eff(d, <<>>, TRUE, FALSE)
        ELSE IF failAt \in 1..Len(cmds)
        THEN Eff(d, SubSeq(cmds, 1, failAt), TRUE, TRUE)
        ELSE Eff(d, cmds, FALSE, FALSE)

\* delete_unused_images(task): the lookup names images_to_delete by a plain
\* str; failAt: the delete command that fails (0: none)
delete_unused_images_eff(d, failAt) ==
    LET r == get_required_host_vars(d, <<PlainStr("images_to_delete"), Field("stack_info")>>)
        cmds == DeleteCmds(d)
    IN  IF Unpack(r, 2) # "none"
        THEN Eff(d, <<>>, TRUE, FALSE)
        ELSE IF failAt \in 1..Len(cmds)
        THEN Eff(d, SubSeq(cmds, 1, failAt), TRUE, TRUE)
        ELSE Eff(d, cmds, FALSE, FALSE)

\* the flash contents after the commands of an effect succeeded
ApplyDeletes(cmds, n) ==
    [m \in MemberIds |->
        dev.flash[m] \ {cmds[i].file : i \in {k \in 1..n :
            /\ cmds[k].kind = "delete"
            /\ m = IF cmds[k].flash = <<"flash:">> THEN DevMaster ELSE cmds[k].flash[2]}}]

\* a variant that copies to every member
CopyTargets_every_member(si) ==
    si.members

\* the members copy_image_to_stack copies to: not the master, and not in
\* stack_info.get(TARGET_IN_FLASH, [])
CopyTargets(si) ==
    SelectSeq(si.members,
              LAMBDA i : ~(i = si.master
                            \/ \E k \in 1..Len(si.target_in_flash.l) :
                                   si.target_in_flash.l[k] = i))

\* copy_image_to_stack(task); failAt: the copy command that fails (0: none)
copy_image_to_stack_eff(d, failAt) ==
    LET r == get_required_host_vars(d, <<Field("primary_image"), Field("stack_info")>>)
        targets == CopyTargets(d.stack_info)
        CopyOf(i) == Cmd("copy", "copy", stack_flash_format(targets[i]), d.primary_image,
                         <<stack_flash_format(d.stack_info.master)>>)
        Answer(i) == IF d.primary_image \in dev.flash[targets[i]]
                     THEN <<Cmd("answer", "n", "", <<>>, <<>>)>> ELSE <<>>
    IN  IF Unpack(r, 2) # "none"
        THEN Eff(d, <<>>, TRUE, FALSE)
        ELSE IF d.stack_info.is_stack # "True"
        THEN Eff(d, <<>>, FALSE, FALSE)
        ELSE IF failAt \in 1..Len(targets)
        THEN Eff(d, Concat([i \in 1..failAt |->
                              IF i < failAt THEN <<CopyOf(i)>> \o Answer(i) ELSE <<CopyOf(i)>>]),
                 TRUE, TRUE)
        ELSE Eff(d, Concat([i \in 1..Len(targets) |-> <<CopyOf(i)>> \o Answer(i)]),
                 FALSE, FALSE)

\* the flash contents after the copy commands that succeeded: a member gets
\* the file when the master's flash holds it
ApplyCopies(e, d) ==
    [m \in MemberIds |->
        IF /\ \E i \in 1..Len(e.cmds) :
                 /\ e.cmds[i].kind = "copy"
                 /\ e.cmds[i].flash[2] = m
                 /\ ~(e.raised /\ i = Len(e.cmds))
           /\ d.stack_info.master \in MemberIds
           /\ d.primary_image \in dev.flash[d.stack_info.master]
        THEN dev.flash[m] \cup {d.primary_image}
        ELSE dev.flash[m]]

(***************************************************************************)
(* tasks/transfer.py                                                       *)
(***************************************************************************)

\* a variant that does not look at primary_image_in_flash
transfer_image_eff_no_flash_check(d, ok) ==
    LET put == Cmd("transfer", "put", <<"flash:">>, d.primary_image,
                   <<d.is_at_target, d.primary_image_in_flash,
                     d.primary_image \in FlashOf(<<"flash:">>)>>)
    IN  IF Unpack(get_required_host_vars(d, <<Field("primary_image"),
                                              Field("primary_image_in_flash"),
                                              Field("is_at_target")>>), 3) # "none"
        THEN Eff(d, <<>>, TRUE, FALSE)
        ELSE IF Truthy(d.is_at_target)
        THEN Eff(d, <<>>, FALSE, FALSE)
        ELSE Eff(d, <<put>>, ~ok, ~ok)

\* transfer_image(task); ok: netmiko_file_transfer did not fail
transfer_image_eff(d, ok) ==
    LET r == get_required_host_vars(d, <<Field("primary_image"),
                                         Field("primary_image_in_flash"),
                                         Field("is_at_target")>>)
        put == Cmd("transfer", "put", <<"flash:">>, d.primary_image,
                   <<d.is_at_target, d.primary_image_in_flash,
                     d.primary_image \in FlashOf(<<"flash:">>)>>)
    IN  IF Unpack(r, 3) # "none"
        THEN Eff(d, <<>>, TRUE, FALSE)
        ELSE IF Truthy(d.is_at_target)
        THEN Eff(d, <<>>, FALSE, FALSE)
        ELSE IF Truthy(d.primary_image_in_flash)
        THEN Eff(d, <<>>, FALSE, FALSE)
        ELSE IF ~ok
        THEN Eff(d, <<put>>, TRUE, TRUE)
        ELSE Eff(d, <<put>>, FALSE, FALSE)

\* the flash contents after a transfer that succeeded
ApplyTransfer(e, d) ==
    IF e.cmds # <<>> /\ ~e.raised
    THEN [dev.flash EXCEPT ![DevMaster] = @ \cup {d.primary_image}]
    ELSE dev.flash

(***************************************************************************)
(* tasks/configure.py, tasks/support.py                                    *)
(***************************************************************************)

ConfigCmd(cmd) ==
    Cmd("config", cmd, "", <<>>, <<>>)

\* enable_scp_server(task): a failure is caught and logged
enable_scp_server_eff(d, ok) ==
    IF ok
    THEN Eff([d EXCEPT !.scp_enabled = "True"], <<ConfigCmd("ip scp server enable")>>,
             FALSE, FALSE)
    ELSE Eff(d, <<ConfigCmd("ip scp server enable")>>, FALSE, TRUE)

\* disable_scp_server(task): a failure is not caught
disable_scp_server_eff(d, ok) ==
    IF ok
    THEN Eff([d EXCEPT !.scp_enabled = "False"], <<ConfigCmd("no ip scp server enable")>>,
             FALSE, FALSE)
    ELSE Eff(d, <<ConfigCmd("no ip scp server enable")>>, TRUE, TRUE)

\* supports_ssh_bulk_mode(task): the assignment of False for a 2960 is
\* followed by the unconditional assignment of True
supports_ssh_bulk_mode_eff(d) ==
    Eff([d EXCEPT !.supports_ssh_bulk_mode = "True"], <<>>, FALSE, FALSE)

\* enable_ssh_bulk_mode(task)
enable_ssh_bulk_mode_eff(d, ok) ==
    IF d.supports_ssh_bulk_mode = "False"
    THEN Eff(d, <<>>, FALSE, FALSE)
    ELSE IF ok
    THEN Eff([d EXCEPT !.ssh_bulk_mode = "True"], <<ConfigCmd("ip ssh bulk-mode")>>,
             FALSE, FALSE)
    ELSE Eff(d, <<ConfigCmd("ip ssh bulk-mode")>>, FALSE, TRUE)

\* disable_ssh_bulk_mode(task)
disable_ssh_bulk_mode_eff(d, ok) ==
    IF d.supports_ssh_bulk_mode = "False"
    THEN Eff(d, <<>>, FALSE, FALSE)
    ELSE IF ok
    THEN Eff([d EXCEPT !.ssh_bulk_mode = "False"], <<ConfigCmd("no ip ssh bulk-mode")>>,
             FALSE, FALSE)
    ELSE Eff(d, <<ConfigCmd("no ip ssh bulk-mode")>>, FALSE, TRUE)

(***************************************************************************)
(* tasks/verify.py                                                         *)
(***************************************************************************)

VerifyCmds(flashes, n, primary_image) ==
    [i \in 1..n |-> Cmd("read", "verify /md5", flashes[i], primary_image, <<>>)]

\* check_md5_result on the output for one flash unit: "Done!" and the
\* expected MD5 appear when the file is there and its checksum is right
check_md5_result(flash, primary_image, md5ok) ==
    primary_image \in FlashOf(flash) /\ md5ok

\* a variant that clears primary_image_md5_verified before the lookup
verify_md5_eff_reset_first(d, force, failAt, md5ok) ==
    LET r == get_required_host_vars(d, <<Field("primary_image"), Field("primary_image_md5"),
                                         Field("stack_info")>>)
        flashes == ListedFlashes(d.stack_info)
        d1 == [d EXCEPT !.primary_image_md5_verified = "False"]
        all_ok == \A i \in 1..Len(flashes) :
                      check_md5_result(flashes[i], d.primary_image, md5ok)
    IN  IF ~force /\ Truthy(d.primary_image_md5_verified)
        THEN Eff(d, <<>>, FALSE, FALSE)
        ELSE IF Unpack(r, 3) # "none"
        THEN Eff(d1, <<>>, TRUE, FALSE)
        ELSE IF failAt \in 1..Len(flashes)
        THEN Eff(d1, VerifyCmds(flashes, failAt, d.primary_image), TRUE, TRUE)
        ELSE IF ~all_ok
        THEN Eff(d1, VerifyCmds(flashes, Len(flashes), d.primary_image), FALSE, TRUE)
        ELSE IF d.stack_info.is_stack = "True"
        THEN Eff([d1 EXCEPT !.primary_image_md5_verified = "True",
                            !.primary_image_in_flash = "True"],
                 VerifyCmds(flashes, Len(flashes), d.primary_image), FALSE, FALSE)
        ELSE Eff([d1 EXCEPT !.primary_image_md5_verified = "True"],
                 VerifyCmds(flashes, Len(flashes), d.primary_image), FALSE, FALSE)

\* a variant that leaves primary_image_md5_verified alone until every
\* checksum is verified
verify_md5_eff_keeps_flag(d, force, failAt, md5ok) ==
    LET r == get_required_host_vars(d, <<Field("primary_image"), Field("primary_image_md5"),
                                         Field("stack_info")>>)
        flashes == ListedFlashes(d.stack_info)
        all_ok == \A i \in 1..Len(flashes) :
                      check_md5_result(flashes[i], d.primary_image, md5ok)
    IN  IF ~force /\ Truthy(d.primary_image_md5_verified)
        THEN Eff(d, <<>>, FALSE, FALSE)
        ELSE IF Unpack(r, 3) # "none"
        THEN Eff(d, <<>>, TRUE, FALSE)
        ELSE IF failAt \in 1..Len(flashes)
        THEN Eff(d, VerifyCmds(flashes, failAt, d.primary_image), TRUE, TRUE)
        ELSE IF ~all_ok
        THEN Eff(d, VerifyCmds(flashes, Len(flashes), d.primary_image), FALSE, TRUE)
        ELSE IF d.stack_info.is_stack = "True"
        THEN Eff([d EXCEPT !.primary_image_md5_verified = "True",
                           !.primary_image_in_flash = "True"],
                 VerifyCmds(flashes, Len(flashes), d.primary_image), FALSE, FALSE)
        ELSE Eff([d EXCEPT !.primary_image_md5_verified = "True"],
                 VerifyCmds(flashes, Len(flashes), d.primary_image), FALSE, FALSE)

\* verify_md5(task, force); failAt: the verify command that fails (0: none);
\* md5ok: the device computes the expected checksum
verify_md5_eff(d, force, failAt, md5ok) ==
    LET r == get_required_host_vars(d, <<Field("primary_image"), Field("primary_image_md5"),
                                         Field("stack_info")>>)
        flashes == ListedFlashes(d.stack_info)
        d1 == [d EXCEPT !.primary_image_md5_verified = "False"]
        all_ok == \A i \in 1..Len(flashes) :
                      check_md5_result(flashes[i], d.primary_image, md5ok)
    IN  IF ~force /\ Truthy(d.primary_image_md5_verified)
        THEN Eff(d, <<>>, FALSE, FALSE)
        ELSE IF Unpack(r, 3) # "none"
        THEN Eff(d, <<>>, TRUE, FALSE)
        ELSE IF failAt \in 1..Len(flashes)
        THEN Eff(d1, VerifyCmds(flashes, failAt, d.primary_image), TRUE, TRUE)
        ELSE IF ~all_ok
        THEN Eff(d1, VerifyCmds(flashes, Len(flashes), d.primary_image), FALSE, TRUE)
        ELSE IF d.stack_info.is_stack = "True"
        THEN Eff([d1 EXCEPT !.primary_image_md5_verified = "True",
                            !.primary_image_in_flash = "True"],
                 VerifyCmds(flashes, Len(flashes), d.primary_image), FALSE, FALSE)
        ELSE Eff([d1 EXCEPT !.primary_image_md5_verified = "True"],
                 VerifyCmds(flashes, Len(flashes), d.primary_image), FALSE, FALSE)

(***************************************************************************)
(* tasks/workflows.py: the checkpoints of the workflow                     *)
(***************************************************************************)

\* a variant that never finds the host at target
_is_at_target_never(d) ==
    FALSE

\* _is_at_target(task)
_is_at_target(d) ==
    Truthy(d.is_at_target)

\* a variant that verifies the checksum whatever the flash check recorded
\* and leaves primary_image_in_flash to the flash check
has_completed_transfer_eff_unguarded(d, failAt, md5ok) ==
    LET e == verify_md5_eff(d, TRUE, failAt, md5ok)
        e1 == [e EXCEPT !.d.primary_image_in_flash = d.primary_image_in_flash]
    IN  IF Truthy(d.primary_image_in_flash) /\ Truthy(d.primary_image_md5_verified)
        THEN [eff |-> Eff(d, <<>>, FALSE, FALSE), result |-> TRUE, verified |-> FALSE]
        ELSE [eff |-> e1,
              result |-> ~e1.raised /\ Truthy(e1.d.primary_image_md5_verified),
              verified |-> TRUE]

\* has_completed_transfer(task): the effect and what it returns; it runs
\* verify_md5 (force defaults to True) when the image is in flash and not
\* yet verified
has_completed_transfer_eff(d, failAt, md5ok) ==
    LET e == verify_md5_eff(d, TRUE, failAt, md5ok)
    IN  IF ~Truthy(d.primary_image_in_flash)
        THEN [eff |-> Eff(d, <<>>, FALSE, FALSE), result |-> FALSE, verified |-> FALSE]
        ELSE IF Truthy(d.primary_image_md5_verified)
        THEN [eff |-> Eff(d, <<>>, FALSE, FALSE), result |-> TRUE, verified |-> FALSE]
        ELSE [eff |-> e,
              result |-> ~e.raised /\ Truthy(e.d.primary_image_md5_verified),
              verified |-> TRUE]

\* is_correct_hostname(task): the effect and what it returns.  dns: what
\* socket.gethostbyname answers ("ip_inv": the address of the inventory,
\* "ip_other": another address, "gaierror"); ok: get_facts did not fail;
\* same_name: the device reports the expected hostname
is_correct_hostname_eff(d, dns, ok, same_name) ==
    LET d1 == [d EXCEPT !.hostname_verified = "False"]
        known == d.dns_ip \notin {"ABSENT", "None"}
        resolved == ~known /\ dns # "gaierror"
        d2 == IF resolved THEN [d1 EXCEPT !.dns_ip = dns] ELSE d1
        ip == IF known THEN d.dns_ip ELSE IF resolved THEN dns ELSE "None"
        facts == <<ReadCmd("get_facts")>>
    IN  IF Truthy(d.hostname_verified)
        THEN [eff |-> Eff(d, <<>>, FALSE, FALSE), result |-> TRUE]
        ELSE IF ip = "None" /\ ~ok
        THEN [eff |-> Eff(d2, facts, TRUE, TRUE), result |-> FALSE]
        ELSE IF ip = "None" /\ ~same_name
        THEN [eff |-> Eff(d2, facts, FALSE, FALSE), result |-> FALSE]
        ELSE IF host.has_ip /\ ip # "ip_inv"
        THEN [eff |-> Eff(d2, IF ip = "None" THEN facts ELSE <<>>, FALSE, FALSE),
              result |-> FALSE]
        ELSE [eff |-> Eff([d2 EXCEPT !.hostname_verified = "True"],
                          IF ip = "None" THEN facts ELSE <<>>, FALSE, FALSE),
              result |-> TRUE]

(***************************************************************************)
(* tasks/workflows.py: transfer_and_verify_image                           *)
(***************************************************************************)

\* a variant that enables the SCP server before the entry checks
Steps_scp_first ==
    << "chk_auth", "enable_scp_server", "_is_at_target_1", "has_completed_transfer_1",
       "is_correct_hostname", "get_stack_info", "get_current_image", "_is_at_target_2",
       "is_primary_image_in_flash", "has_completed_transfer_2",
       "get_ios_version", "get_images_to_delete", "delete_unused_images",
       "supports_ssh_bulk_mode", "enable_ssh_bulk_mode",
       "transfer_image", "copy_image_to_stack", "disable_scp_server",
       "disable_ssh_bulk_mode", "verify_md5" >>

\* a variant that reads the current image before it resolves the stack
Steps_current_image_first ==
    << "chk_auth", "_is_at_target_1", "has_completed_transfer_1", "is_correct_hostname",
       "get_current_image", "get_stack_info", "_is_at_target_2",
       "is_primary_image_in_flash", "has_completed_transfer_2",
       "get_ios_version", "get_images_to_delete", "delete_unused_images",
       "enable_scp_server", "supports_ssh_bulk_mode", "enable_ssh_bulk_mode",
       "transfer_image", "copy_image_to_stack", "disable_scp_server",
       "disable_ssh_bulk_mode", "verify_md5" >>

\* the statements of the body of transfer_and_verify_image, in order
Steps ==
    << "chk_auth", "_is_at_target_1", "has_completed_transfer_1", "is_correct_hostname",
       "get_stack_info", "get_current_image", "_is_at_target_2",
       "is_primary_image_in_flash", "has_completed_transfer_2",
       "get_ios_version", "get_images_to_delete", "delete_unused_images",
       "enable_scp_server", "supports_ssh_bulk_mode", "enable_ssh_bulk_mode",
       "transfer_image", "copy_image_to_stack", "disable_scp_server",
       "disable_ssh_bulk_mode", "verify_md5" >>

\* the statement after statement p; after the last one the body ends
After(p) ==
    LET i == CHOOSE k \in 1..Len(Steps) : Steps[k] = p
    IN  IF i = Len(Steps) THEN "finally" ELSE Steps[i + 1]

\* the tasks the command line runs on their own (commands/*.py)
CliTasks ==
    { "is_correct_hostname", "get_stack_info", "get_current_image",
      "is_primary_image_in_flash", "get_ios_version", "get_images_to_delete",
      "delete_unused_images", "enable_scp_server", "enable_ssh_bulk_mode",
      "transfer_image", "copy_image_to_stack", "disable_scp_server",
      "disable_ssh_bulk_mode", "verify_md5" }

\* task `name` may run now: as the current statement of the workflow, or
\* from the command line between runs
AtStep(name) ==
    \/ pc = name
    \/ pc = "idle" /\ name \in CliTasks /\ cli < MaxCommands

\* a variant without try/finally: the connections are closed on return only
finally_closed_on_return(n, raising) ==
    IF raising THEN n ELSE n + 1

\* the finally block: close_connections() is called once
finally_closed(n, raising) ==
    n + 1

\* The state after a task or checkpoint: tr the steps it executed, e its
\* effect, flash the flash contents it leaves, ret: the workflow returns after it, found: the flash
\* check found the primary image
Done(tr, e, flash, ret, found) ==
    /\ data' = e.d
    /\ dev' = [dev EXCEPT !.flash = flash]
    /\ lastOp' = Head(tr)
    /\ UNCHANGED <<host, skip_dns_check>>
    /\ OwnHostOnly
    /\ cli' = IF pc = "idle" THEN cli + 1 ELSE cli
    /\ IF pc = "idle"
       THEN /\ pc' = "idle"
            /\ runLog' = e.cmds
            /\ trace' = <<>>
            /\ exc' = FALSE
            /\ closed' = 0
            /\ outcome' = IF e.raised THEN "task_failed" ELSE "task_ok"
            /\ data0' = EmptyData
            /\ envFault' = e.fault
            /\ flashFound' = FALSE
       ELSE /\ pc' = IF e.raised \/ ret THEN "finally" ELSE After(pc)
            /\ runLog' = runLog \o e.cmds
            /\ trace' = trace \o tr
            /\ exc' = e.raised
            /\ envFault' = (envFault \/ e.fault)
            /\ flashFound' = (flashFound \/ found)
            /\ UNCHANGED <<closed, outcome, data0>>

\* the runner calls transfer_and_verify_image(task, skip_dns_check)
Begin ==
    /\ pc = "idle"
    /\ cli < MaxCommands
    /\ \E skip \in BOOLEAN : skip_dns_check' = skip
    /\ pc' = Steps[1]
    /\ exc' = FALSE
    /\ runLog' = <<>>
    /\ trace' = <<>>
    /\ closed' = 0
    /\ outcome' = "running"
    /\ data0' = data
    /\ envFault' = FALSE
    /\ flashFound' = FALSE
    /\ lastOp' = "begin"
    /\ cli' = cli + 1
    /\ UNCHANGED <<data, host, dev>>
    /\ OwnHostOnly

NoEff ==
    Eff(data, <<>>, FALSE, FALSE)

\* a variant that stops only when auth_status is False ("is False")
chk_auth_false_only ==
    /\ pc = "chk_auth"
    /\ Done(<<"chk_auth">>, NoEff, dev.flash, data.auth_status = "False", FALSE)

\* if not task.host.data.get(AUTH_STATUS): return
chk_auth ==
    /\ pc = "chk_auth"
    /\ Done(<<"chk_auth">>, NoEff, dev.flash, ~Truthy(data.auth_status), FALSE)

\* if _is_at_target(task): return    (at entry and after get_current_image)
is_at_target_check ==
    /\ pc \in {"_is_at_target_1", "_is_at_target_2"}
    /\ Done(<<pc>>, NoEff, dev.flash, _is_at_target(data), FALSE)

\* if has_completed_transfer(task): return   (at entry and after the flash check)
has_completed_transfer ==
    /\ pc \in {"has_completed_transfer_1", "has_completed_transfer_2"}
    /\ \E failAt \in 0..Cardinality(MemberIds), md5ok \in BOOLEAN :
          LET h == has_completed_transfer_eff(data, failAt, md5ok)
          IN  /\ failAt <= Len(h.eff.cmds)
              /\ failAt # 0 => h.eff.raised
              /\ Done(IF h.verified THEN <<pc, "verify_md5">> ELSE <<pc>>, h.eff, dev.flash,
                      h.result, FALSE)

\* if not skip_dns_check and not is_correct_hostname(task): return
is_correct_hostname ==
    /\ AtStep("is_correct_hostname")
    /\ IF pc # "idle" /\ skip_dns_check
       THEN Done(<<"is_correct_hostname">>, NoEff, dev.flash, FALSE, FALSE)
       ELSE \E dns \in {"ip_inv", "ip_other", "gaierror"}, ok \in BOOLEAN,
               same_name \in BOOLEAN :
               LET h == is_correct_hostname_eff(data, dns, ok, same_name)
               IN  /\ Len(h.eff.cmds) = 0 => ok /\ same_name
                   /\ ~ok => same_name
                   /\ (h.eff.d = data /\ h.result) => dns = "ip_inv"
                   /\ Done(<<"is_correct_hostname">>, h.eff, dev.flash, ~h.result, FALSE)

\* the finally block of transfer_and_verify_image, and the end of the run
Finally ==
    /\ pc = "finally"
    /\ closed' = finally_closed(closed, exc)
    /\ outcome' = IF exc THEN "raised" ELSE "returned"
    /\ pc' = "idle"
    /\ exc' = FALSE
    /\ lastOp' = "finally"
    /\ runLog' = <<>>
    /\ trace' = <<>>
    /\ data0' = EmptyData
    /\ envFault' = FALSE
    /\ flashFound' = FALSE
    /\ skip_dns_check' = FALSE
    /\ UNCHANGED <<data, host, dev, cli>>
    /\ OwnHostOnly

(***************************************************************************)
(* The tasks, as statements of the workflow and as commands                *)
(***************************************************************************)

\* the failing command of a task that sends up to n commands (0: none fails)
FailAts ==
    0..Cardinality(MemberIds)

\* the input failAt names a command the task sent, and that command failed
Meaningful(failAt, e) ==
    /\ failAt <= Len(e.cmds)
    /\ failAt # 0 => e.fault

\* the workflow passes force=False; the command line has a --force flag
get_stack_info ==
    /\ AtStep("get_stack_info")
    /\ \E force \in BOOLEAN, ok \in BOOLEAN :
          /\ pc # "idle" => ~force
          /\ LET e == get_stack_info_eff(data, force, ok)
             IN  /\ ~ok => e.fault
                 /\ Done(<<"get_stack_info">>, e, dev.flash, FALSE, FALSE)

get_current_image ==
    /\ AtStep("get_current_image")
    /\ \E force \in BOOLEAN, ok \in BOOLEAN :
          /\ pc # "idle" => ~force
          /\ LET e == get_current_image_eff(data, force, ok)
             IN  /\ ~ok => e.fault
                 /\ Done(<<"get_current_image">>, e, dev.flash, FALSE, FALSE)

\* the workflow passes force=False; the command runs with the default True
is_primary_image_in_flash ==
    /\ AtStep("is_primary_image_in_flash")
    /\ \E ok \in BOOLEAN, form \in {"dict", "nofiles", "text"} :
          LET e == is_primary_image_in_flash_eff(data, pc = "idle", ok, form)
          IN  /\ ~ok => e.fault
              /\ form # "dict" => e.raised
              /\ Done(<<"is_primary_image_in_flash">>, e, dev.flash, FALSE,
                      e.d.primary_image_in_flash = "True" /\ ~e.raised)

get_ios_version ==
    /\ AtStep("get_ios_version")
    /\ \E ok \in BOOLEAN :
          Done(<<"get_ios_version">>, get_ios_version_eff(data, ok), dev.flash, FALSE, FALSE)

get_images_to_delete ==
    /\ AtStep("get_images_to_delete")
    /\ \E failAt \in FailAts, form \in {"dict", "list", "text", "nofiles"} :
          LET e == get_images_to_delete_eff(data, failAt, form)
          IN  /\ Meaningful(failAt, e)
              /\ Done(<<"get_images_to_delete">>, e, dev.flash, FALSE, FALSE)

delete_unused_images ==
    /\ AtStep("delete_unused_images")
    /\ \E failAt \in FailAts :
          LET e == delete_unused_images_eff(data, failAt)
          IN  /\ Meaningful(failAt, e)
              /\ Done(<<"delete_unused_images">>, e,
                      ApplyDeletes(e.cmds, IF e.fault THEN Len(e.cmds) - 1 ELSE Len(e.cmds)),
                      FALSE, FALSE)

enable_scp_server ==
    /\ AtStep("enable_scp_server")
    /\ \E ok \in BOOLEAN :
          Done(<<"enable_scp_server">>, enable_scp_server_eff(data, ok), dev.flash,
               FALSE, FALSE)

\* only the workflow runs this task, and no run gets to it: the lookup of
\* delete_unused_images, three statements earlier, always raises; the step
\* is therefore no disjunct of Next
supports_ssh_bulk_mode ==
    /\ pc = "supports_ssh_bulk_mode"
    /\ Done(<<"supports_ssh_bulk_mode">>, supports_ssh_bulk_mode_eff(data), dev.flash,
            FALSE, FALSE)

enable_ssh_bulk_mode ==
    /\ AtStep("enable_ssh_bulk_mode")
    /\ \E ok \in BOOLEAN :
          LET e == enable_ssh_bulk_mode_eff(data, ok)
          IN  /\ ~ok => e.fault
              /\ Done(<<"enable_ssh_bulk_mode">>, e, dev.flash, FALSE, FALSE)

transfer_image ==
    /\ AtStep("transfer_image")
    /\ \E ok \in BOOLEAN :
          LET e == transfer_image_eff(data, ok)
          IN  /\ ~ok => e.fault
              /\ Done(<<"transfer_image">>, e, ApplyTransfer(e, data), FALSE, FALSE)

copy_image_to_stack ==
    /\ AtStep("copy_image_to_stack")
    /\ \E failAt \in FailAts :
          LET e == copy_image_to_stack_eff(data, failAt)
          IN  /\ failAt # 0 => e.fault
              /\ Done(<<"copy_image_to_stack">>, e, ApplyCopies(e, data), FALSE, FALSE)

disable_scp_server ==
    /\ AtStep("disable_scp_server")
    /\ \E ok \in BOOLEAN :
          Done(<<"disable_scp_server">>, disable_scp_server_eff(data, ok), dev.flash,
               FALSE, FALSE)

disable_ssh_bulk_mode ==
    /\ AtStep("disable_ssh_bulk_mode")
    /\ \E ok \in BOOLEAN :
          LET e == disable_ssh_bulk_mode_eff(data, ok)
          IN  /\ ~ok => e.fault
              /\ Done(<<"disable_ssh_bulk_mode">>, e, dev.flash, FALSE, FALSE)

\* the workflow runs verify_md5 with the default force=True
verify_md5 ==
    /\ AtStep("verify_md5")
    /\ \E force \in BOOLEAN, failAt \in FailAts, md5ok \in BOOLEAN :
          /\ pc # "idle" => force
          /\ LET e == verify_md5_eff(data, force, failAt, md5ok)
             IN  /\ Meaningful(failAt, e)
                 /\ Done(<<"verify_md5">>, e, dev.flash, FALSE, FALSE)

(***************************************************************************)
(* Commands that change what the workflow reads                            *)
(***************************************************************************)

\* The state after a command that is not a task of the workflow
Between(d) ==
    /\ pc = "idle"
    /\ cli < MaxCommands
    /\ data' = d
    /\ lastOp' = "setup"
    /\ runLog' = <<>>
    /\ trace' = <<>>
    /\ closed' = 0
    /\ outcome' = "task_ok"
    /\ data0' = EmptyData
    /\ envFault' = FALSE
    /\ flashFound' = FALSE
    /\ UNCHANGED <<host, dev, pc, skip_dns_check, exc, cli>>
    /\ OwnHostOnly

\* tasks/connectivity.py check_credentials: the connection opens, or the
\* authentication fails, or another error is raised
check_credentials ==
    \E result \in {"opened", "auth_failed", "error"} :
        Between(
                CASE result = "opened" -> [data EXCEPT !.auth_status = "True"]
                  [] result = "auth_failed" -> [data EXCEPT !.auth_status = "False"]
                  [] OTHER -> data)

\* tasks/nornir.py _set_primary_image_data: the image of the host's group
set_primary_image ==
    \E image \in TargetImages :
        Between(
                [data EXCEPT !.primary_image = image, !.primary_image_md5 = "md5"])

\* commands/help_and_utils/shell.py: the operator interrupts the running
\* command (KeyboardInterrupt); the exception unwinds through the finally
\* block and the shell goes on
Interrupt ==
    /\ pc \notin {"idle", "finally"}
    /\ pc' = "finally"
    /\ exc' = TRUE
    /\ envFault' = TRUE
    /\ lastOp' = "interrupt"
    /\ UNCHANGED <<data, host, dev, skip_dns_check, runLog, trace, closed, outcome,
                   data0, flashFound, cli>>
    /\ OwnHostOnly

(***************************************************************************)
(* tasks/configure.py, tasks/verify.py: reload and boot statement          *)
(***************************************************************************)

\* the values the operator passes to the set-reload command:
\* "14:30 05 jan", "14:30 31 apr", "25:00 05 jan", "14:30 05",
\* " 14:30 05 JAN ", "14:30<TAB>05<TAB>jan", "23:59 30 feb", "00:00 29 feb",
\* "14:30 30 apr", "14:60 05 jan", "14:30 32 jan", "14:30 5 jan",
\* "14:30  05 jan"
ReloadDates ==
    {
      <<"1", "4", ":", "3", "0", " ", "0", "5", " ", "j", "a", "n">>,
      <<"1", "4", ":", "3", "0", " ", "3", "1", " ", "a", "p", "r">>,
      <<"2", "5", ":", "0", "0", " ", "0", "5", " ", "j", "a", "n">>,
      <<"1", "4", ":", "3", "0", " ", "0", "5">>,
      <<" ", "1", "4", ":", "3", "0", " ", "0", "5", " ", "J", "A", "N", " ">>,
      <<"1", "4", ":", "3", "0", "\t", "0", "5", "\t", "j", "a", "n">>,
      <<"2", "3", ":", "5", "9", " ", "3", "0", " ", "f", "e", "b">>,
      <<"0", "0", ":", "0", "0", " ", "2", "9", " ", "f", "e", "b">>,
      <<"1", "4", ":", "3", "0", " ", "3", "0", " ", "a", "p", "r">>,
      <<"1", "4", ":", "6", "0", " ", "0", "5", " ", "j", "a", "n">>,
      <<"1", "4", ":", "3", "0", " ", "3", "2", " ", "j", "a", "n">>,
      <<"1", "4", ":", "3", "0", " ", "5", " ", "j", "a", "n">>,
      <<"1", "4", ":", "3", "0", " ", " ", "0", "5", " ", "j", "a", "n">>,
      <<"1", "4", ":", "3", "0", " ", "0", "0", " ", "j", "a", "n">> }

\* The state after a task of the command line that changes the device's
\* configuration: e its effect, dev2 the device it leaves
Ran(op, e, dev2) ==
    /\ pc = "idle"
    /\ cli < MaxCommands
    /\ data' = e.d
    /\ dev' = dev2
    /\ lastOp' = op
    /\ cli' = cli + 1
    /\ runLog' = e.cmds
    /\ trace' = <<>>
    /\ closed' = 0
    /\ outcome' = IF e.raised THEN "task_failed" ELSE "task_ok"
    /\ data0' = data
    /\ envFault' = e.fault
    /\ flashFound' = FALSE
    /\ UNCHANGED <<host, pc, skip_dns_check, exc>>
    /\ OwnHostOnly

\* "reload at {reload_time}\nyes\n\nshow reload\n", sent with use_timing
ReloadAtCmd(reload_time) ==
    Cmd("reload", "reload at", "", reload_time, <<>>)

\* set_reload(task, reload_time, force)
set_reload_eff(d, reload_time, force, ok) ==
    IF ~force /\ Truthy(d.is_at_target)
    THEN Eff(d, <<>>, FALSE, FALSE)
    ELSE IF reload_time = <<>>
    THEN Eff(d, <<>>, FALSE, FALSE)
    ELSE IF ~force /\ d.reload_time = reload_time /\ Truthy(d.reload_set)
    THEN Eff(d, <<>>, FALSE, FALSE)
    ELSE IF ~ok
    THEN Eff(d, <<ReloadAtCmd(reload_time)>>, TRUE, TRUE)
    ELSE Eff([d EXCEPT !.reload_time = reload_time],
             <<ReloadAtCmd(reload_time)>>, FALSE, FALSE)

\* a variant that cancels wherever is_at_target is recorded
cancel_reload_at_target_eff_any(d, ok) ==
    IF Unpack(get_required_host_vars(d, <<Field("is_at_target")>>), 1) # "none"
    THEN Eff(d, <<>>, TRUE, FALSE)
    ELSE Eff(d, <<ReadCmd("reload cancel")>>, ~ok, ~ok)

\* cancel_reload_at_target(task)
cancel_reload_at_target_eff(d, ok) ==
    IF Unpack(get_required_host_vars(d, <<Field("is_at_target")>>), 1) # "none"
    THEN Eff(d, <<>>, TRUE, FALSE)
    ELSE IF ~Truthy(d.is_at_target)
    THEN Eff(d, <<>>, FALSE, FALSE)
    ELSE Eff(d, <<ReadCmd("reload cancel")>>, ~ok, ~ok)

\* strip the leading zero of a part of two characters
test_part(part) ==
    IF Len(part) = 2 /\ part[1] = "0" THEN <<part[2]>> ELSE part

\* "show reload" of a device with the reload `reload_at` scheduled reports
\* the parts of `reload_time`: (" " + test_part) in result.result.lower()
PartsReported(reload_time, reload_at) ==
    LET parts == split(lower(reload_time))
        shown == split(lower(reload_at))
    IN  \A i \in 1..Len(parts) :
           \E j \in 1..Len(shown) : test_part(shown[j]) = test_part(parts[i])

\* verify_reload(task, force)
verify_reload_eff(d, force, ok) ==
    IF ~force /\ Truthy(d.reload_set)
    THEN Eff(d, <<>>, FALSE, FALSE)
    ELSE IF Unpack(get_required_host_vars(d, <<Field("is_at_target")>>), 1) # "none"
    THEN Eff(d, <<>>, TRUE, FALSE)
    ELSE IF Truthy(d.is_at_target)
    THEN Eff(d, <<>>, FALSE, FALSE)
    ELSE IF Unpack(get_required_host_vars(d, <<Field("reload_time")>>), 1) # "none"
    THEN Eff(d, <<>>, TRUE, FALSE)
    ELSE IF ~ok
    THEN Eff(d, <<ReadCmd("show reload")>>, TRUE, TRUE)
    ELSE IF dev.reload_at = ABSENT_S
    THEN Eff([d EXCEPT !.reload_set = "False"], <<ReadCmd("show reload")>>, FALSE, FALSE)
    ELSE IF ~PartsReported(d.reload_time, dev.reload_at)
    THEN Eff([d EXCEPT !.reload_set = "False"], <<ReadCmd("show reload")>>, FALSE, FALSE)
    ELSE Eff([d EXCEPT !.reload_set = "True"], <<ReadCmd("show reload")>>, FALSE, FALSE)

\* check_no_reload(task): "no reload" in result.result.lower() is the answer
\* of a device without a scheduled reload
check_no_reload_eff(d, ok) ==
    IF Unpack(get_required_host_vars(d, <<Field("is_at_target")>>), 1) # "none"
    THEN Eff(d, <<>>, TRUE, FALSE)
    ELSE IF ~ok
    THEN Eff(d, <<ReadCmd("show reload")>>, TRUE, TRUE)
    ELSE IF dev.reload_at # ABSENT_S
    THEN Eff([d EXCEPT !.reload_set = "False"], <<ReadCmd("show reload")>>, FALSE, FALSE)
    ELSE Eff([d EXCEPT !.reload_set = "True"], <<ReadCmd("show reload")>>, FALSE, FALSE)

\* the boot statement, pushed with netmiko_send_config, and the save
BootCmd(primary_image) ==
    Cmd("config", "boot system", "", primary_image, <<>>)

SaveCmd ==
    Cmd("config", "write memory", "", <<>>, <<>>)

\* the result of a verification: "raise", or the value returned
Verified(result, cmds) ==
    [result |-> result, cmds |-> cmds]

\* verify_switch_boot_statement(task): boot is the boot statement of the
\* device; re.search(f"flash:{primary_image}", result.result)
verify_switch_boot_statement_eff(d, boot, ok) ==
    IF Unpack(get_required_host_vars(d, <<Field("primary_image"), Field("platform")>>), 2)
           # "none"
    THEN Verified("raise", <<>>)
    ELSE IF d.current_image \in {ABSENT_S, NONE_S}
    THEN Verified("None", <<>>)
    ELSE IF ~ok
    THEN Verified("raise", <<ReadCmd("show boot system")>>)
    ELSE IF d.primary_image \notin boot
    THEN Verified("False", <<ReadCmd("show boot system")>>)
    ELSE Verified("True", <<ReadCmd("show boot system")>>)

\* verify_boot_statement(task): platform.lower() of a mapping raises
\* AttributeError
verify_boot_statement_eff(d, boot, ok) ==
    IF Unpack(get_required_host_vars(d, <<Field("primary_image"), Field("current_image"),
                                          Field("platform")>>), 3) # "none"
    THEN Verified("raise", <<>>)
    ELSE IF d.platform.t # "str"
    THEN Verified("raise", <<>>)
    ELSE IF lower(d.platform.s) \notin {<<"i", "o", "s">>, <<"i", "o", "s", "-", "x", "e">>}
    THEN Verified("None", <<>>)
    ELSE IF ~ok
    THEN Verified("raise", <<ReadCmd("show bootvar")>>)
    ELSE IF d.primary_image \in boot
    THEN Verified("True", <<ReadCmd("show bootvar")>>)
    ELSE Verified("None", <<ReadCmd("show bootvar")>>)

\* what a boot statement task did: its effect and the boot statement of
\* the device afterwards
BootEff(eff, boot) ==
    [eff |-> eff, boot |-> boot]

\* the boot statement after the push: the device applies it or keeps its own
Pushed(d, applied) ==
    IF applied THEN {d.primary_image, d.current_image} ELSE dev.boot

\* a variant that records the flag whatever the verification returned
set_switch_boot_statement_eff_unverified(d, force, failAt, applied) ==
    LET r == get_required_host_vars(d, <<Field("primary_image"), Field("current_image"),
                                         Field("stack_info")>>)
        v == verify_switch_boot_statement_eff(d, Pushed(d, applied), failAt # 3)
        cmds == <<BootCmd(d.primary_image), SaveCmd>>
    IN  IF Unpack(r, 3) # "none"
        THEN BootEff(Eff(d, <<>>, TRUE, FALSE), dev.boot)
        ELSE IF ~force /\ Truthy(d.boot_statement_set)
        THEN BootEff(Eff(d, <<>>, FALSE, FALSE), dev.boot)
        ELSE IF failAt = 1
        THEN BootEff(Eff(d, <<BootCmd(d.primary_image)>>, TRUE, TRUE), dev.boot)
        ELSE IF failAt = 2
        THEN BootEff(Eff(d, cmds, FALSE, TRUE), Pushed(d, applied))
        ELSE IF v.result = "raise"
        THEN BootEff(Eff(d, cmds \o v.cmds, TRUE, failAt = 3), Pushed(d, applied))
        ELSE BootEff(Eff([d EXCEPT !.boot_statement_set = "True"], cmds \o v.cmds,
                         FALSE, v.result = "False"),
                     Pushed(d, applied))

\* set_switch_boot_statement(task, force); failAt: the command that fails
\* (1: the push, 2: the save, 3: "show boot system")
set_switch_boot_statement_eff(d, force, failAt, applied) ==
    LET r == get_required_host_vars(d, <<Field("primary_image"), Field("current_image"),
                                         Field("stack_info")>>)
        v == verify_switch_boot_statement_eff(d, Pushed(d, applied), failAt # 3)
        cmds == <<BootCmd(d.primary_image), SaveCmd>>
    IN  IF Unpack(r, 3) # "none"
        THEN BootEff(Eff(d, <<>>, TRUE, FALSE), dev.boot)
        ELSE IF ~force /\ Truthy(d.boot_statement_set)
        THEN BootEff(Eff(d, <<>>, FALSE, FALSE), dev.boot)
        ELSE IF failAt = 1
        THEN BootEff(Eff(d, <<BootCmd(d.primary_image)>>, TRUE, TRUE), dev.boot)
        ELSE IF failAt = 2
        THEN BootEff(Eff(d, cmds, FALSE, TRUE), Pushed(d, applied))
        ELSE IF v.result = "raise"
        THEN BootEff(Eff(d, cmds \o v.cmds, TRUE, failAt = 3), Pushed(d, applied))
        ELSE IF v.result = "False"
        THEN BootEff(Eff(d, cmds \o v.cmds, FALSE, TRUE), Pushed(d, applied))
        ELSE BootEff(Eff([d EXCEPT !.boot_statement_set = "True"], cmds \o v.cmds,
                         FALSE, FALSE),
                     Pushed(d, applied))

\* set_router_boot_statement(task); failAt: the command that fails
\* (1: the push, 2: the save, 3: "show bootvar")
set_router_boot_statement_eff(d, failAt, applied) ==
    LET r == get_required_host_vars(d, <<Field("primary_image"), Field("current_image")>>)
        v == verify_boot_statement_eff(d, Pushed(d, applied), failAt # 3)
        cmds == <<BootCmd(d.primary_image), SaveCmd>>
    IN  IF Unpack(r, 2) # "none"
        THEN BootEff(Eff(d, <<>>, TRUE, FALSE), dev.boot)
        ELSE IF Truthy(d.boot_statement_set)
        THEN BootEff(Eff(d, <<>>, FALSE, FALSE), dev.boot)
        ELSE IF failAt = 1
        THEN BootEff(Eff(d, <<BootCmd(d.primary_image)>>, TRUE, TRUE), dev.boot)
        ELSE IF failAt = 2
        THEN BootEff(Eff(d, cmds, FALSE, TRUE), Pushed(d, applied))
        ELSE IF v.result = "raise"
        THEN BootEff(Eff(d, cmds \o v.cmds, TRUE, failAt = 3), Pushed(d, applied))
        ELSE IF v.result = "False"
        THEN BootEff(Eff(d, cmds \o v.cmds, FALSE, TRUE), Pushed(d, applied))
        ELSE BootEff(Eff([d EXCEPT !.boot_statement_set = "True"], cmds \o v.cmds,
                         FALSE, v.result # "True"),
                     Pushed(d, applied))

\* validate_reload_date of the values the operator passes, and the
\* schedule the device keeps for each
ValidatedDates ==
    [time \in ReloadDates |-> validate_reload_date(time)]

ScheduleOf ==
    [time \in ReloadDates |-> lower(strip(time))]

\* commands/configure.py set_reload: the value is validated, then the task
\* runs with it; the device accepts the schedule or answers with an error
set_reload ==
    \E time \in ReloadDates, force \in BOOLEAN, ok \in BOOLEAN, accepted \in BOOLEAN :
        IF ~ValidatedDates[time]
        THEN /\ ok /\ accepted /\ ~force
             /\ Ran("set_reload", NoEff, dev)
        ELSE LET e == set_reload_eff(data, time, force, ok)
             IN  /\ ~ok => e.fault
                 /\ ~accepted => (e.cmds # <<>> /\ ~e.raised)
                 /\ Ran("set_reload", e,
                        IF e.cmds # <<>> /\ ~e.raised /\ accepted
                        THEN [dev EXCEPT !.reload_at = ScheduleOf[time]]
                        ELSE dev)

cancel_reload_at_target ==
    \E ok \in BOOLEAN :
        LET e == cancel_reload_at_target_eff(data, ok)
        IN  /\ ~ok => e.fault
            /\ Ran("cancel_reload_at_target", e,
                   IF e.cmds # <<>> /\ ~e.raised
                   THEN [dev EXCEPT !.reload_at = ABSENT_S]
                   ELSE dev)

verify_reload ==
    \E force \in BOOLEAN, ok \in BOOLEAN :
        LET e == verify_reload_eff(data, force, ok)
        IN  /\ ~ok => e.fault
            /\ Ran("verify_reload", e, dev)

check_no_reload ==
    \E ok \in BOOLEAN :
        LET e == check_no_reload_eff(data, ok)
        IN  /\ ~ok => e.fault
            /\ Ran("check_no_reload", e, dev)

set_switch_boot_statement ==
    \E force \in BOOLEAN, failAt \in 0..3, applied \in BOOLEAN :
        LET b == set_switch_boot_statement_eff(data, force, failAt, applied)
        IN  /\ Meaningful(failAt, b.eff)
            /\ ~applied => b.boot # {data.primary_image, data.current_image}
            /\ Ran("set_switch_boot_statement", b.eff, [dev EXCEPT !.boot = b.boot])

set_router_boot_statement ==
    \E failAt \in 0..3, applied \in BOOLEAN :
        LET b == set_router_boot_statement_eff(data, failAt, applied)
        IN  /\ Meaningful(failAt, b.eff)
            /\ ~applied => b.boot # {data.primary_image, data.current_image}
            /\ Ran("set_router_boot_statement", b.eff, [dev EXCEPT !.boot = b.boot])

\* the host states the configuration commands find: the inventory's
\* platform entry, and what set_primary_image, get_stack_info and
\* get_current_image recorded, each of them run or not
HostSetup(platform, image, stack, current) ==
    LET d0 == [EmptyData EXCEPT !.platform = platform]
        d1 == IF image = <<>> THEN d0
              ELSE [d0 EXCEPT !.primary_image = image, !.primary_image_md5 = "md5"]
        d2 == IF stack THEN get_stack_info_eff(d1, FALSE, TRUE).d ELSE d1
    IN  IF current THEN get_current_image_eff(d2, FALSE, TRUE).d ELSE d2

\* the hosts the configuration commands are studied on: the stack with a
\* master on each of its devices, a switch without stacking and a router
ConfigureInventory ==
    { hd \in Inventory :
         \/ hd[1].show_switch.is_str
         \/ /\ Len(hd[1].show_switch.stack) = 2
            /\ \E i \in 1..2 : hd[1].show_switch.stack[i].role = "master" }

InitConfigure ==
    /\ \E hd \in ConfigureInventory :
        LET h == hd[1]
            dv == hd[2]
        IN
          /\ host = [is_router |-> h.is_router, model2960 |-> h.model2960,
                     has_ip |-> h.has_ip]
          /\ dev = [show_switch |-> h.show_switch,
                    flash |-> [m \in MemberIds |->
                                 IF m \in {h.show_switch.stack[i].num :
                                             i \in {k \in 1..Len(h.show_switch.stack) :
                                               h.show_switch.stack[k].state # "provisioned"}}
                                    \/ m = "1"
                                 THEN dv.flash ELSE {}],
                    running |-> dv.running,
                    os_version |-> dv.os_version,
                    boot |-> {dv.running},
                    reload_at |-> ABSENT_S]
    /\ \E platform \in {NoPlatform, PlatformName, PlatformDict},
          image \in {IMG_A, <<>>}, stack \in BOOLEAN, current \in BOOLEAN :
          data = HostSetup(platform, image, stack, current)
    /\ pc = "idle"
    /\ skip_dns_check = FALSE
    /\ exc = FALSE
    /\ runLog = <<>>
    /\ trace = <<>>
    /\ closed = 0
    /\ outcome = "none"
    /\ data0 = EmptyData
    /\ envFault = FALSE
    /\ flashFound = FALSE
    /\ lastOp = "init"
    /\ cli = 0
    /\ turn = "A"
    /\ parked = <<>>
    /\ tacacs = NoTacacs

NextConfigure ==
    \/ set_reload
    \/ cancel_reload_at_target
    \/ verify_reload
    \/ check_no_reload
    \/ set_switch_boot_statement
    \/ set_router_boot_statement

SpecConfigure ==
    InitConfigure /\ [][NextConfigure]_vars

(***************************************************************************)
(* commands/workflows/ios_upgrade.py: the workflow on every host           *)
(***************************************************************************)

FleetHosts ==
    {"A", "B"}

\* the state of the host whose worker runs
HostState ==
    [data |-> data, host |-> host, dev |-> dev, pc |-> pc,
     skip_dns_check |-> skip_dns_check, exc |-> exc, runLog |-> runLog,
     trace |-> trace, closed |-> closed, outcome |-> outcome, data0 |-> data0,
     envFault |-> envFault, flashFound |-> flashFound, lastOp |-> lastOp, cli |-> cli]

\* the state of host h
StateOf(h) ==
    IF h = turn THEN HostState ELSE parked[h]

\* the host state r is the one in the variables
Running(r) ==
    /\ data = r.data
    /\ host = r.host
    /\ dev = r.dev
    /\ pc = r.pc
    /\ skip_dns_check = r.skip_dns_check
    /\ exc = r.exc
    /\ runLog = r.runLog
    /\ trace = r.trace
    /\ closed = r.closed
    /\ outcome = r.outcome
    /\ data0 = r.data0
    /\ envFault = r.envFault
    /\ flashFound = r.flashFound
    /\ lastOp = r.lastOp
    /\ cli = r.cli

\* the host state r is the one in the variables after the step
Resumed(r) ==
    /\ data' = r.data
    /\ host' = r.host
    /\ dev' = r.dev
    /\ pc' = r.pc
    /\ skip_dns_check' = r.skip_dns_check
    /\ exc' = r.exc
    /\ runLog' = r.runLog
    /\ trace' = r.trace
    /\ closed' = r.closed
    /\ outcome' = r.outcome
    /\ data0' = r.data0
    /\ envFault' = r.envFault
    /\ flashFound' = r.flashFound
    /\ lastOp' = r.lastOp
    /\ cli' = r.cli

\* the runner lets the worker of another host run
Switch ==
    \E h \in DOMAIN parked :
        /\ Resumed(parked[h])
        /\ turn' = h
        /\ parked' = [x \in (DOMAIN parked \ {h}) \cup {turn} |->
                         IF x = turn THEN HostState ELSE parked[x]]
        /\ UNCHANGED tacacs

\* the hosts of the run: the stack with a master on the device that runs
\* an image of its own, the switch without stacking and the router
FleetInventory ==
    { hd \in ConfigureInventory :
          hd[1].show_switch.is_str \/ hd[2].running = IMG_OTHER }

\* CONFIG.nornir.run(task=transfer_and_verify_image, skip_dns_check=...):
\* the state of a host when its worker starts; the hosts have been
\* authenticated or not, and their primary image is set
Started(hd, skip, auth) ==
    LET d == [EmptyData EXCEPT !.auth_status = auth, !.primary_image = IMG_A,
                               !.primary_image_md5 = "md5"]
    IN  [data |-> d,
         host |-> [is_router |-> hd[1].is_router, model2960 |-> hd[1].model2960,
                   has_ip |-> hd[1].has_ip],
         dev |-> [show_switch |-> hd[1].show_switch,
                  flash |-> [m \in MemberIds |->
                               IF m \in {hd[1].show_switch.stack[i].num :
                                           i \in {k \in 1..Len(hd[1].show_switch.stack) :
                                             hd[1].show_switch.stack[k].state
                                                 # "provisioned"}}
                                  \/ m = "1"
                               THEN hd[2].flash ELSE {}],
                  running |-> hd[2].running,
                  os_version |-> hd[2].os_version,
                  boot |-> {hd[2].running},
                  reload_at |-> ABSENT_S],
         pc |-> Steps[1], skip_dns_check |-> skip, exc |-> FALSE, runLog |-> <<>>,
         trace |-> <<>>, closed |-> 0, outcome |-> "running", data0 |-> d,
         envFault |-> FALSE, flashFound |-> FALSE, lastOp |-> "begin",
         cli |-> MaxCommands]

InitFleet ==
    \E a \in FleetInventory, b \in FleetInventory, skip \in BOOLEAN,
       auth \in {"True", "False"} :
        /\ a # b
        /\ ~a[1].show_switch.is_str \/ (a[1].is_router /\ b[1].show_switch.is_str)
        /\ Running(Started(a, skip, "True"))
        /\ turn = "A"
        /\ parked = [h \in FleetHosts \ {"A"} |-> Started(b, skip, auth)]
        /\ tacacs = NoTacacs

NextFleet ==
    \/ chk_auth
    \/ is_at_target_check
    \/ has_completed_transfer
    \/ is_correct_hostname
    \/ get_stack_info
    \/ get_current_image
    \/ is_primary_image_in_flash
    \/ get_ios_version
    \/ get_images_to_delete
    \/ delete_unused_images
    \/ Finally
    \/ Switch

SpecFleet ==
    InitFleet /\ [][NextFleet]_vars

(***************************************************************************)
(* tasks/workflows.py: check_and_handle_tacacs_credentials                 *)
(***************************************************************************)

TacacsHosts ==
    {"sw1", "sw2", "rtr1"}

\* the single host of the other commands stays as the inventory gives it
TacacsFrame ==
    UNCHANGED <<data, host, dev, pc, skip_dns_check, exc, runLog, trace, closed,
                outcome, data0, envFault, flashFound, lastOp, cli, turn, parked>>

\* a check of the log: the host, the pass, the credentials used, the
\* auth_status of the host after the check and how the attempt ended
Checked(h, pass, user, auth, result) ==
    [host |-> h, pass |-> pass, user |-> user, auth |-> auth, result |-> result]

\* the workflow starts: CONFIG.nornir.run(task=check_credentials) hands
\* every host of the inventory to a worker
check_and_handle_tacacs_credentials ==
    /\ tacacs.phase = "idle"
    /\ tacacs.runs < MaxCommands
    /\ tacacs' = [tacacs EXCEPT !.phase = "first", !.pending = TacacsHosts,
                                !.runs = @ + 1, !.log = <<>>]
    /\ TacacsFrame

\* tasks/connectivity.py check_credentials in the worker of host h: the
\* connection opens, the authentication fails, or another error is raised
\* (auth_status stays as it was)
check_credentials_worker ==
    \E h \in tacacs.pending, result \in {"opened", "auth_failed", "error"} :
        LET auth == CASE result = "opened" -> "True"
                      [] result = "auth_failed" -> "False"
                      [] OTHER -> tacacs.auth[h]
        IN  /\ tacacs.phase \in {"first", "second"}
            /\ tacacs' = [tacacs EXCEPT
                             !.pending = @ \ {h},
                             !.auth[h] = auth,
                             !.log = Append(@, Checked(h, tacacs.phase, tacacs.user[h], auth,
                                                          result))]
            /\ TacacsFrame

\* failed_hosts: the hosts with "not host.data.get(AUTH_STATUS)"
failed_hosts ==
    {h \in TacacsHosts : ~Truthy(tacacs.auth[h])}

\* a variant that runs the second pass on the whole inventory
first_pass_returned_all_hosts ==
    /\ tacacs.phase = "first"
    /\ tacacs.pending = {}
    /\ IF failed_hosts = {}
       THEN tacacs' = [tacacs EXCEPT !.phase = "idle"]
       ELSE tacacs' = [tacacs EXCEPT
                          !.phase = "second",
                          !.pending = TacacsHosts,
                          !.user = [h \in TacacsHosts |->
                                       IF h \in failed_hosts THEN "v1" ELSE @[h]]]
    /\ TacacsFrame

\* the first run() has returned: without failed hosts the workflow returns;
\* otherwise the failed hosts get the v1 credentials and failed_nr.run
\* hands them to the workers
first_pass_returned ==
    /\ tacacs.phase = "first"
    /\ tacacs.pending = {}
    /\ IF failed_hosts = {}
       THEN tacacs' = [tacacs EXCEPT !.phase = "idle"]
       ELSE tacacs' = [tacacs EXCEPT
                          !.phase = "second",
                          !.pending = failed_hosts,
                          !.user = [h \in TacacsHosts |->
                                       IF h \in failed_hosts THEN "v1" ELSE @[h]]]
    /\ TacacsFrame

\* the second run() has returned: the hosts that still failed are reported
second_pass_returned ==
    /\ tacacs.phase = "second"
    /\ tacacs.pending = {}
    /\ tacacs' = [tacacs EXCEPT !.phase = "idle"]
    /\ TacacsFrame

InitTacacs ==
    /\ \E hd \in FleetInventory :
          /\ hd[1].is_router
          /\ Running([Started(hd, FALSE, "ABSENT") EXCEPT
                         !.data = EmptyData, !.data0 = EmptyData, !.pc = "idle",
                         !.outcome = "none", !.lastOp = "init", !.cli = 0])
    /\ turn = "A"
    /\ parked = <<>>
    /\ tacacs = [phase |-> "idle", pending |-> {}, runs |-> 0, log |-> <<>>,
                 auth |-> [h \in TacacsHosts |-> "ABSENT"],
                 user |-> [h \in TacacsHosts |-> "v2"]]

NextTacacs ==
    \/ check_and_handle_tacacs_credentials
    \/ check_credentials_worker
    \/ first_pass_returned
    \/ second_pass_returned

SpecTacacs ==
    InitTacacs /\ [][NextTacacs]_vars

(***************************************************************************)
(* tasks/support.py, tasks/configure.py: SSH bulk mode                     *)
(***************************************************************************)

\* supports_ssh_bulk_mode(task) applied to the host
supports_ssh_bulk_mode_task ==
    /\ pc = "idle"
    /\ cli < MaxCommands
    /\ Done(<<"supports_ssh_bulk_mode">>, supports_ssh_bulk_mode_eff(data), dev.flash,
            FALSE, FALSE)

\* the task that records the support and the two tasks that read it
NextSupport ==
    \/ supports_ssh_bulk_mode_task
    \/ enable_ssh_bulk_mode
    \/ disable_ssh_bulk_mode

SpecSupport ==
    Init /\ [][NextSupport]_vars

(***************************************************************************)
(* tasks/flash.py, commands/flash.py: the image on the members of a stack  *)
(***************************************************************************)

\* is_primary_image_in_flash_stack(task, force); failAt: the "show flash"
\* that fails (0: none); form: the listing arrives as text, or parsed into
\* a list of entries in which the name of the image is never an element.
\* stack_info is the dict of host.data, so what the task stores and appends
\* stays when it raises; without the key target_in_flash the test of the
\* loop (not force) or the append (force) raises KeyError
is_primary_image_in_flash_stack_eff(d, force, failAt, form) ==
    LET r == get_required_host_vars(d, <<Field("primary_image"), Field("stack_info")>>)
        ms == d.stack_info.members
        n == Len(ms)
        flashes == ListedFlashes(d.stack_info)
        Found(i) == form = "text" /\ d.primary_image \in FlashOf(flashes[i])
        listed == d.primary_image_in_flash \in {"ABSENT", "None"}
        last == IF failAt \in 1..n THEN failAt ELSE n
        read == IF failAt \in 1..n THEN failAt - 1 ELSE n
        found == SelectSeq([i \in 1..read |-> i], Found)
        WithList(l) == [d EXCEPT !.stack_info.target_in_flash = [present |-> TRUE, l |-> l]]
    IN  IF Unpack(r, 2) # "none"
        THEN Eff(d, <<>>, TRUE, FALSE)
        ELSE IF d.stack_info.is_stack # "True"
        THEN Eff(d, <<>>, FALSE, FALSE)
        ELSE IF listed
        THEN Eff(WithList([k \in 1..Len(found) |-> ms[found[k]]]),
                 ShowFlashCmds(flashes, last), failAt \in 1..n, failAt \in 1..n)
        ELSE IF ~force
        THEN Eff(d, <<>>, TRUE, FALSE)
        ELSE IF found # <<>>
        THEN Eff(d, ShowFlashCmds(flashes, found[1]), TRUE, FALSE)
        ELSE Eff(d, ShowFlashCmds(flashes, last), failAt \in 1..n, failAt \in 1..n)

\* commands/flash.py check_for_image_on_stack
is_primary_image_in_flash_stack ==
    /\ pc = "idle"
    /\ cli < MaxCommands
    /\ \E force \in BOOLEAN, failAt \in FailAts, form \in {"text", "list"} :
          LET e == is_primary_image_in_flash_stack_eff(data, force, failAt, form)
          IN  /\ Meaningful(failAt, e)
              /\ Done(<<"is_primary_image_in_flash_stack">>, e, dev.flash, FALSE, FALSE)

\* the hosts the stack commands are studied on: those of the inventory and a
\* stack of three active members
StackHosts ==
    Hosts \cup
    { [is_router |-> FALSE, model2960 |-> FALSE, has_ip |-> TRUE,
       show_switch |-> SwParsed(<<Sw("1", "member", "ready"), Sw("2", "master", "ready"),
                                  Sw("3", "member", "ready")>>)] }

\* the master holds the files of the device; `bare`: the other members hold
\* what a device holds before the upgrade
InitStack ==
    /\ \E h \in StackHosts, dv \in Devices, bare \in BOOLEAN :
          LET st == h.show_switch.stack
              ms == {i \in 1..Len(st) : st[i].role \in {"master", "active"}}
              other == IF bare THEN {IMG_OLD, FILE_TXT} ELSE dv.flash
          IN
          /\ host = [is_router |-> h.is_router, model2960 |-> h.model2960,
                     has_ip |-> h.has_ip]
          /\ dev = [show_switch |-> h.show_switch,
                    flash |-> [m \in MemberIds |->
                                 IF \E i \in ms : st[i].num = m THEN dv.flash
                                 ELSE IF \E i \in 1..Len(st) :
                                            st[i].num = m /\ st[i].state # "provisioned"
                                 THEN other
                                 ELSE IF m = "1" /\ st = <<>> THEN dv.flash ELSE {}],
                    running |-> dv.running,
                    os_version |-> dv.os_version,
                    boot |-> {dv.running},
                    reload_at |-> ABSENT_S]
    /\ \E image \in {IMG_A, <<>>}, stack \in BOOLEAN :
          data = HostSetup(NoPlatform, image, stack, FALSE)
    /\ pc = "idle"
    /\ skip_dns_check = FALSE
    /\ exc = FALSE
    /\ runLog = <<>>
    /\ trace = <<>>
    /\ closed = 0
    /\ outcome = "none"
    /\ data0 = EmptyData
    /\ envFault = FALSE
    /\ flashFound = FALSE
    /\ lastOp = "init"
    /\ cli = 0
    /\ turn = "A"
    /\ parked = <<>>
    /\ tacacs = NoTacacs

\* the commands on the image of a stack, from the command line
NextStack ==
    \/ is_primary_image_in_flash
    \/ is_primary_image_in_flash_stack
    \/ copy_image_to_stack

SpecStack ==
    InitStack /\ [][NextStack]_vars

Next ==
    \/ Begin
    \/ chk_auth
    \/ is_at_target_check
    \/ has_completed_transfer
    \/ is_correct_hostname
    \/ get_stack_info
    \/ get_current_image
    \/ is_primary_image_in_flash
    \/ get_ios_version
    \/ get_images_to_delete
    \/ delete_unused_images
    \/ enable_scp_server
    \/ enable_ssh_bulk_mode
    \/ transfer_image
    \/ copy_image_to_stack
    \/ disable_scp_server
    \/ disable_ssh_bulk_mode
    \/ verify_md5
    \/ Finally
    \/ Interrupt
    \/ check_credentials
    \/ set_primary_image

Spec ==
    Init /\ [][Next]_vars


(***************************************************************************)
(* Properties                                                              *)
(***************************************************************************)

\* the last step was task `op`, run by the workflow or from the command
\* line, and it did not raise
Completed(op) ==
    /\ lastOp = op
    /\ ~exc
    /\ outcome \in {"running", "task_ok"}

\* C1: after get_images_to_delete has recorded images_to_delete (from a
\* dict, list or text listing, of one flash or of the flashes of a stack),
\* the recorded set holds neither the host's primary_image nor its
\* current_image.
C1_PlanExcludesPrimaryAndCurrent ==
    (Completed("get_images_to_delete") /\ data.images_to_delete.present)
        => /\ data.primary_image \notin data.images_to_delete.v
           /\ data.current_image \notin data.images_to_delete.v

\* get_images_to_delete recorded a non-empty plan for a stack whose flashes
\* hold the primary image and the running image, whose name does not carry
\* the version the device reports
C1_Witness ==
    /\ Completed("get_images_to_delete")
    /\ data.images_to_delete.v # {}
    /\ data.stack_info.is_stack = "True"
    /\ data.primary_image \in dev.flash[data.stack_info.master]
    /\ data.current_image \in dev.flash[data.stack_info.master]
    /\ ~_match_ios_version(data.ios_version, data.current_image)

\* the commands of kind `kind` in the log of the running workflow (or of
\* the last task run from the command line)
Sent(kind) ==
    {i \in 1..Len(runLog) : runLog[i].kind = kind}

\* a run of transfer_and_verify_image is under way (its body or its
\* finally block)
InRun ==
    pc # "idle"

C3_AtTargetRunOnlyReads ==
    (InRun /\ data0.is_at_target = "True")
        => \A i \in 1..Len(runLog) : runLog[i].kind = "read"

\* an authenticated host that a first run found at target was run again,
\* and the run ended at the entry check
C3_Witness ==
    /\ pc = "finally"
    /\ data0.is_at_target = "True"
    /\ Truthy(data0.auth_status)
    /\ trace = <<"chk_auth", "_is_at_target_1">>

C5_NoAuthNoStep ==
    (InRun /\ ~Truthy(data0.auth_status))
        => /\ runLog = <<>>
           /\ data = data0
           /\ trace \in {<<>>, <<"chk_auth">>}

\* a run for a host whose authentication failed, and which has a primary
\* image to transfer, ended at the authentication check
C5_Witness ==
    /\ pc = "finally"
    /\ data0.auth_status = "False"
    /\ data0.primary_image # ABSENT_S
    /\ trace = <<"chk_auth">>

\* C6: every run of transfer_and_verify_image has closed the connections
\* exactly once when it has ended, whether it returned (authentication
\* abort, skip, hostname mismatch, completion) or a step raised; it does not
\* close them before.
C6_ClosedExactlyOnce ==
    /\ outcome \in {"returned", "raised"} => closed = 1
    /\ outcome = "running" => closed = 0

\* a run in which a step raised has ended, and the connections are closed
C6_Witness ==
    /\ outcome = "raised"
    /\ closed = 1
    /\ pc = "idle"

\* the steps in the order the specification lists them: stack resolution,
\* current image, at-target check, flash check, cleanup planning, cleanup
\* execution, SCP enable, bulk-mode enable, transfer, stack propagation,
\* SCP disable, bulk-mode disable, MD5 verification
ListedOrder ==
    << "get_stack_info", "get_current_image", "_is_at_target_2",
       "is_primary_image_in_flash", "get_images_to_delete", "delete_unused_images",
       "enable_scp_server", "enable_ssh_bulk_mode", "transfer_image",
       "copy_image_to_stack", "disable_scp_server", "disable_ssh_bulk_mode",
       "verify_md5" >>

Pos(name) ==
    CHOOSE k \in 1..Len(ListedOrder) : ListedOrder[k] = name

\* the listed steps among the executed steps tr, in execution order
Listed(tr) ==
    SelectSeq(tr, LAMBDA x : \E k \in 1..Len(ListedOrder) : ListedOrder[k] = x)

\* no step twice, and none before a step that is listed earlier
StrictlyOrdered(seq) ==
    \A i, j \in 1..Len(seq) : i < j => Pos(seq[i]) < Pos(seq[j])

\* step b is in tr only after step a
OnlyAfter(tr, a, b) ==
    \A i \in 1..Len(tr) : tr[i] = b => \E j \in 1..(i - 1) : tr[j] = a

\* the executed steps, with the MD5 verifications that a completed-transfer
\* checkpoint ran named apart from the verification step of the workflow
Marked(tr) ==
    [i \in 1..Len(tr) |->
        IF /\ tr[i] = "verify_md5"
           /\ i > 1
           /\ tr[i - 1] \in {"has_completed_transfer_1", "has_completed_transfer_2"}
        THEN "checkpoint_verify_md5"
        ELSE tr[i]]

\* the listed steps of tr are in the listed order, each at most once, and
\* the transfer comes only after cleanup execution and SCP enable
InListedOrder(tr) ==
    /\ StrictlyOrdered(Listed(tr))
    /\ OnlyAfter(tr, "delete_unused_images", "transfer_image")
    /\ OnlyAfter(tr, "enable_scp_server", "transfer_image")

\* C7 as stated: the steps of a run execute strictly in the listed order,
\* each at most once, MD5 verification last (so after any stack propagation
\* and SCP disable), and the transfer only after cleanup execution and SCP
\* enable.
C7_StepsInListedOrder ==
    InRun => InListedOrder(trace)

\* C7, amended: the statement holds for the steps of the workflow body,
\* whose MD5 verification comes only after stack propagation and SCP
\* disable; the MD5 verifications that the two completed-transfer
\* checkpoints run (at most one each) are outside the order.
C7_StepsInOrderApartFromCheckpoints ==
    InRun => /\ InListedOrder(Marked(trace))
             /\ OnlyAfter(Marked(trace), "copy_image_to_stack", "verify_md5")
             /\ OnlyAfter(Marked(trace), "disable_scp_server", "verify_md5")
             /\ \A i, j \in 1..Len(trace) :
                   (/\ i < j
                    /\ Marked(trace)[i] = "checkpoint_verify_md5"
                    /\ Marked(trace)[j] = "checkpoint_verify_md5")
                       => trace[i - 1] # trace[j - 1]

\* a run verified the MD5 at the checkpoint after the flash check, found it
\* wrong, and went on to plan the cleanup
C7_Witness ==
    /\ InRun
    /\ \E i, j \in 1..Len(trace) :
          /\ i < j
          /\ Marked(trace)[i] = "checkpoint_verify_md5"
          /\ trace[j] = "get_images_to_delete"
    /\ Len(Listed(Marked(trace))) >= 5

\* the steps after the second checkpoint
AfterCheckpoints ==
    { "get_ios_version", "get_images_to_delete", "delete_unused_images",
      "enable_scp_server", "supports_ssh_bulk_mode", "enable_ssh_bulk_mode",
      "transfer_image", "copy_image_to_stack", "disable_scp_server",
      "disable_ssh_bulk_mode", "verify_md5" }

\* cleanup planning, deletion, SCP and bulk-mode enable, transfer, stack copy
CleanupAndTransferSteps ==
    { "get_images_to_delete", "delete_unused_images", "enable_scp_server",
      "enable_ssh_bulk_mode", "transfer_image", "copy_image_to_stack" }

\* the host state says: at target, or image in flash and MD5 verified
AtTargetOrCompleted(d) ==
    \/ d.is_at_target = "True"
    \/ d.primary_image_in_flash = "True" /\ d.primary_image_md5_verified = "True"

\* C8: a run in which the host is at target, or has the image in flash and
\* verified, at the entry checkpoint or at the checkpoint after the current
\* image and the flash check, performs no cleanup planning, deletion, SCP or
\* bulk-mode enable, transfer or stack copy; and has_completed_transfer
\* reports completion only with primary_image_in_flash and
\* primary_image_md5_verified both true.
C8_CheckpointsSkipTheRest ==
    /\ (InRun /\ (pc \in AfterCheckpoints
                  \/ \E i \in 1..Len(trace) : trace[i] \in CleanupAndTransferSteps))
          => ~AtTargetOrCompleted(data0)
    /\ pc \in AfterCheckpoints => ~AtTargetOrCompleted(data)
    /\ (/\ pc = "finally"
        /\ lastOp \in {"has_completed_transfer_1", "has_completed_transfer_2"}
        /\ ~exc)
          => /\ data.primary_image_in_flash = "True"
             /\ data.primary_image_md5_verified = "True"

\* the checkpoint after the flash check verified the MD5 of the image found
\* in flash and ended the run before any cleanup or transfer step
C8_Witness ==
    /\ pc = "finally"
    /\ lastOp = "has_completed_transfer_2"
    /\ ~exc
    /\ trace[Len(trace)] = "verify_md5"
    /\ ~AtTargetOrCompleted(data0)

\* the device is not a stack: "show switch" lists at most one switch that
\* is not provisioned, or is not understood
Standalone ==
    \/ dev.show_switch.is_str
    \/ Len(ActiveSwitches(dev.show_switch.stack)) <= 1

\* C9 as stated: for an authenticated, hostname-verified standalone host
\* with primary_image and primary_image_md5 set, not at target and without
\* the image in flash, a run in which the device never misbehaves executes
\* the steps through the transfer and ends with primary_image_md5_verified
\* true.
C9_StandaloneRunTransfersAndVerifies ==
    (/\ pc = "finally"
     /\ Standalone
     /\ Truthy(data0.auth_status)
     /\ Truthy(data0.hostname_verified)
     /\ data0.primary_image # ABSENT_S
     /\ data0.primary_image_md5 # "ABSENT"
     /\ data0.is_at_target # "True"
     /\ dev.running # data0.primary_image
     /\ data0.primary_image_in_flash # "True"
     /\ (data0.primary_image \notin dev.flash[DevMaster]
         \/ \E i \in 1..Len(trace) : trace[i] = "transfer_image")
     /\ ~envFault)
        => /\ \E i \in 1..Len(trace) : trace[i] = "transfer_image"
           /\ data.primary_image_md5_verified = "True"
           /\ ~exc

\* C10 as stated: no exception raised by a step of the workflow leaves
\* transfer_and_verify_image; when the body has ended on a step, the
\* function returns normally.
C10_NoStepExceptionPropagates ==
    (pc = "finally" /\ lastOp # "interrupt") => ~exc

(***************************************************************************)
(* The prerequisite lookup                                                 *)
(***************************************************************************)

\* the steps of the workflow that look their prerequisites up with
\* get_required_host_vars
GuardedSteps ==
    { "is_primary_image_in_flash", "get_images_to_delete", "delete_unused_images",
      "transfer_image", "copy_image_to_stack", "verify_md5" }

\* the variables a step requests (tasks/flash.py 95, 252-260, 329-332,
\* 363-366; tasks/transfer.py 18-25; tasks/verify.py 131-134)
RequiredVars(step) ==
    CASE step = "is_primary_image_in_flash" -> <<Field("primary_image")>>
      [] step = "get_images_to_delete" ->
             <<Field("primary_image"), Field("current_image"), Field("ios_version"),
               Field("stack_info")>>
      [] step = "delete_unused_images" ->
             <<PlainStr("images_to_delete"), Field("stack_info")>>
      [] step = "transfer_image" ->
             <<Field("primary_image"), Field("primary_image_in_flash"),
               Field("is_at_target")>>
      [] step = "copy_image_to_stack" -> <<Field("primary_image"), Field("stack_info")>>
      [] step = "verify_md5" ->
             <<Field("primary_image"), Field("primary_image_md5"), Field("stack_info")>>

\* a required variable of the step is missing from d or does not validate
PrerequisiteMissing(step, d) ==
    \E i \in 1..Len(RequiredVars(step)) :
        \/ ~FieldPresent(d, RequiredVars(step)[i].name)
        \/ ~DataField_validate(d, RequiredVars(step)[i].name)

\* the step got as far as its lookup: the flash check of a workflow run
\* returns before it when primary_image_in_flash is already true, and
\* verify_md5 without force when the checksum is already verified
LookedUp(step, d) ==
    /\ step = "is_primary_image_in_flash" => ~Truthy(d.primary_image_in_flash)
    /\ step = "verify_md5" => ~Truthy(d.primary_image_md5_verified)

\* C11: when a step finds a prerequisite missing or invalid it returns
\* normally without raising; a workflow run then goes on to the step that
\* follows, and a task started on its own does not fail.
C11_MissingPrerequisiteSkipsOnlyTheStep ==
    \A step \in GuardedSteps :
        (/\ lastOp = step
         /\ LookedUp(step, data)
         /\ PrerequisiteMissing(step, data))
            => /\ ~exc
               /\ outcome \in {"running", "task_ok"}
               /\ InRun => pc = After(step)

\* the steps whose lookup names declared fields only (delete_unused_images
\* passes a plain str)
DeclaredLookups ==
    GuardedSteps \ {"delete_unused_images"}

\* C12: for declared fields get_required_host_vars never raises, its flag is
\* true exactly when every requested field is present and valid, and the
\* list it returns has one entry for the flag and one for each requested
\* field, whether or not the lookup succeeded.
C12_LookupReturnsFlagAndEveryEntry ==
    \A step \in DeclaredLookups :
        LET r == get_required_host_vars(data, RequiredVars(step))
        IN  /\ r.exc = "none"
            /\ r.success <=> ~PrerequisiteMissing(step, data)
            /\ r.len = Len(RequiredVars(step)) + 1

\* the commands the last step sent: a workflow run appends them to its log,
\* a task started on its own starts a new log
NewCommands ==
    IF pc' = "idle" THEN runLog' ELSE SubSeq(runLog', Len(runLog) + 1, Len(runLog'))

FlatValues ==
    { PyNone, PyBool(TRUE), PyBool(FALSE), PyInt(0), PyInt(2), PyStr(<<>>),
      PyStr(<<" ">>), PyStr(<<"1">>), PyList(<<>>), PyList(<<"1", "2">>) }

\* the dicts with keys among `keys` and values among `values`
DictsOver(keys, values) ==
    {PyDict(items) : items \in UNION {[K -> values] : K \in SUBSET keys}}

\* dicts for a manufacturer; "vendor" is not a declared key
ManufacturerDicts ==
    DictsOver({"id", "name", "vendor"},
              {PyNone, PyBool(TRUE), PyInt(0), PyInt(2), PyStr(<<>>), PyStr(<<"1">>)})

\* dicts for a device type, with a manufacturer that is a valid dict, an
\* invalid dict, a dict with an unknown key or no dict; "extra" is not a
\* declared key
DeviceTypeDicts ==
    DictsOver({"model", "manufacturer", "extra"},
              { PyNone, PyStr(<<"1">>), PyStr(<<" ">>),
                PyDict(<<>>),
                PyDict([k \in {"id", "name"} |-> IF k = "id" THEN PyInt(2) ELSE PyStr(<<"1">>)]),
                PyDict([k \in {"id"} |-> PyInt(0)]),
                PyDict([k \in {"vendor"} |-> PyNone]) })

\* dicts for stack_info; "hostname" is not a declared key
StackInfoDicts ==
    DictsOver({"is_stack", "stack_members", "stack_master", "hostname"},
              { PyNone, PyBool(TRUE), PyInt(2), PyStr(<<>>), PyStr(<<"1">>),
                PyList(<<"1", "2">>) })

\* the value has the declared type of the field and every validator of the
\* field accepts it
AcceptsFlat(f, value) ==
    /\ isinstance(value, f.t)
    /\ \A i \in 1..Len(f.validators) : ApplyValidator(f.validators[i], value)

\* a value the declared field f must reject: for a nested field, what is not
\* a mapping or holds a declared key with a value its field rejects
BadEntry(f, value) ==
    IF f.t \in NestedDataFields
    THEN \/ value.t # "dict"
         \/ \E k \in DOMAIN value.items : \E g \in get_data_fields(f.t) :
                g.name = k /\ ~AcceptsFlat(g, value.items[k])
    ELSE ~AcceptsFlat(f, value)

\* a mapping in which every declared key that is present has a valid value;
\* keys that are not declared do not count
AcceptedMapping(cls, value) ==
    /\ value.t = "dict"
    /\ ~ \E k \in DOMAIN value.items : \E f \in get_data_fields(cls) :
             f.name = k /\ BadEntry(f, value.items[k])

\* the declared fields without nesting
FlatFields ==
    { f \in UNION {get_data_fields(cls) : cls \in NestedDataFields} :
        f.t \notin NestedDataFields }

\* validate agrees with the declared type and validators on every flat
\* field and value, and with AcceptedMapping on every nested field and dict
ValidateAgrees ==
    /\ \A f \in FlatFields : \A value \in FlatValues \cup ManufacturerDicts :
           validate(f, value) <=> AcceptsFlat(f, value)
    /\ \A value \in FlatValues \cup StackInfoDicts :
           validate(DataField("stack_info", "StackInfoFields", <<>>), value)
               <=> AcceptedMapping("StackInfoFields", value)
    /\ \A value \in FlatValues \cup ManufacturerDicts :
           validate(DataField("manufacturer", "ManufacturerFields", <<>>), value)
               <=> AcceptedMapping("ManufacturerFields", value)
    /\ \A value \in FlatValues \cup DeviceTypeDicts :
           validate(DataField("device_type", "DeviceTypeFields", <<>>), value)
               <=> AcceptedMapping("DeviceTypeFields", value)

\* the dict a task stored as stack_info
PyOfStackInfo(si) ==
    PyDict([k \in {"is_stack", "stack_members", "stack_master"}
                     \cup (IF si.target_in_flash.present THEN {"target_in_flash"} ELSE {}) |->
               CASE k = "is_stack" ->
                        IF si.is_stack = "None" THEN PyNone ELSE PyBool(si.is_stack = "True")
                 [] k = "stack_members" ->
                        IF si.members_none THEN PyNone ELSE PyList(si.members)
                 [] k = "stack_master" ->
                        IF si.master = "None" THEN PyNone ELSE PyStr(<<si.master>>)
                 [] k = "target_in_flash" -> PyList(si.target_in_flash.l)])

\* the value of a string field of the host state
PyOfString(s) ==
    IF s = NONE_S THEN PyNone ELSE PyStr(s)

\* C14: DataField.validate(value) is true exactly when the value has the
\* field's declared type and every validator of the field accepts it; for a
\* nested field exactly when the value is a mapping in which every declared
\* key that is present has a valid value, recursively, and unknown keys
\* never cause rejection. In particular the stack_info and the image name
\* of the host validate accordingly.
C14_ValidateByTypeAndValidators ==
    /\ ValidateAgrees
    /\ data.stack_info.present
           => /\ validate(DataField("stack_info", "StackInfoFields", <<>>),
                          PyOfStackInfo(data.stack_info))
                      <=> AcceptedMapping("StackInfoFields", PyOfStackInfo(data.stack_info))
              /\ StackInfoFields_validate_dict(data.stack_info)
                      <=> AcceptedMapping("StackInfoFields", PyOfStackInfo(data.stack_info))
    /\ data.primary_image # ABSENT_S
           => /\ validate(DataField("primary_image", "str", <<"is_not_empty_string">>),
                          PyOfString(data.primary_image))
                      <=> DataField_validate(data, "primary_image")

\* the lookup of get_images_to_delete validated the stack_info of a stack,
\* a dict without the declared key target_in_flash, and accepted it
C14_Witness ==
    /\ Completed("get_images_to_delete")
    /\ data.stack_info.is_stack = "True"
    /\ AcceptedMapping("StackInfoFields", PyOfStackInfo(data.stack_info))
    /\ "target_in_flash" \notin DOMAIN PyOfStackInfo(data.stack_info).items

(***************************************************************************)
(* Stack resolution                                                        *)
(***************************************************************************)

\* the positions of the "show switch" listing whose switch is not provisioned
NotProvisioned ==
    {i \in 1..Len(dev.show_switch.stack) : dev.show_switch.stack[i].state # "provisioned"}

\* the k-th of them in listing order
NthNotProvisioned(k) ==
    CHOOSE i \in NotProvisioned : Cardinality({j \in NotProvisioned : j < i}) = k - 1

\* those of them whose role is master or active
MasterCandidates ==
    {i \in NotProvisioned : dev.show_switch.stack[i].role \in {"master", "active"}}

\* the stack_info on record was built by get_stack_info from the parsed
\* "show switch" output of the device
FromParsedOutput ==
    /\ data.stack_info.present
    /\ ~is_router
    /\ ~dev.show_switch.is_str

\* C15: get_stack_info ignores the provisioned members of the listing; with
\* at most one member left it records is_stack false, with two or more it
\* records is_stack true, as members the ids of the members that are not
\* provisioned in listing order, and as master the first of them whose role
\* is master or active.
C15_StackInfoOfActiveMembers ==
    FromParsedOutput
        => IF Cardinality(NotProvisioned) <= 1
           THEN data.stack_info.is_stack = "False"
           ELSE /\ data.stack_info.is_stack = "True"
                /\ ~data.stack_info.members_none
                /\ Len(data.stack_info.members) = Cardinality(NotProvisioned)
                /\ \A k \in 1..Len(data.stack_info.members) :
                       data.stack_info.members[k]
                           = dev.show_switch.stack[NthNotProvisioned(k)].num
                /\ MasterCandidates # {}
                       => \E i \in MasterCandidates :
                              /\ \A j \in MasterCandidates : i <= j
                              /\ data.stack_info.master = dev.show_switch.stack[i].num

\* get_stack_info resolved a listing of three switches, the last of them
\* provisioned and the second the master
C15_Witness ==
    /\ Completed("get_stack_info")
    /\ FromParsedOutput
    /\ Len(dev.show_switch.stack) = 3
    /\ Cardinality(NotProvisioned) = 2
    /\ data.stack_info.master = "2"

\* C16: every stack_info recorded with is_stack true has a non-empty list of
\* members, and its master is one of them, whatever "show switch" listing it
\* was built from, one without a member of role master or active included.
C16_StackHasMasterAmongMembers ==
    (data.stack_info.present /\ data.stack_info.is_stack = "True")
        => /\ ~data.stack_info.members_none
           /\ data.stack_info.members # <<>>
           /\ \E k \in 1..Len(data.stack_info.members) :
                  data.stack_info.members[k] = data.stack_info.master

\* the steps after stack resolution whose lookup requests stack_info as a
\* declared field
StackInfoSteps ==
    {"get_images_to_delete", "copy_image_to_stack", "verify_md5"}

\* every field the step requires other than stack_info is present and valid
OtherPrerequisitesValid(step, d) ==
    \A i \in 1..Len(RequiredVars(step)) :
        RequiredVars(step)[i].name # "stack_info"
            => /\ FieldPresent(d, RequiredVars(step)[i].name)
               /\ DataField_validate(d, RequiredVars(step)[i].name)

\* C17: the stack_info that get_stack_info records for a device without
\* stacking (is_stack false) is a valid prerequisite: it validates, and a
\* later step that requires it, and has its other prerequisites, does not
\* fail at its lookup.
C17_NonStackInfoIsValidPrerequisite ==
    (data.stack_info.present /\ data.stack_info.is_stack = "False")
        => /\ StackInfoFields_validate_dict(data.stack_info)
           /\ \A step \in StackInfoSteps :
                  (/\ lastOp = step
                   /\ LookedUp(step, data)
                   /\ OtherPrerequisitesValid(step, data)
                   /\ ~envFault)
                      => ~exc /\ outcome # "task_failed"

ListedNames ==
    UNION {dev.flash[data.stack_info.members[k]] : k \in 1..Len(data.stack_info.members)}

\* the listed names that start with an image-shaped match, differ from the
\* primary and the current image and do not carry the running version
ExpectedPlan ==
    {name \in ListedNames :
        /\ ReMatch(name, data.primary_image)
        /\ name # data.primary_image
        /\ name # data.current_image
        /\ ~_match_ios_version(data.ios_version, name)}

\* C19: after get_images_to_delete the recorded images_to_delete is exactly
\* the set of listed file names that start with an image-shaped match,
\* differ from primary_image and current_image and do not contain the
\* running IOS version; for a stack the union of that set over the members.
C19_PlanIsExactlyTheMatchingNames ==
    (Completed("get_images_to_delete") /\ data.images_to_delete.present)
        => data.images_to_delete.v = ExpectedPlan

\* C20: get_images_to_delete sends only read-only listing commands, leaves
\* the flash of the device as it is, and changes no field of the host state
\* other than images_to_delete.
C20_PlanningOnlyReadsAndRecords ==
    [][lastOp' = "get_images_to_delete"
          => /\ \A i \in 1..Len(NewCommands) :
                    /\ NewCommands[i].kind = "read"
                    /\ NewCommands[i].cmd = "show flash"
             /\ dev' = dev
             /\ [data' EXCEPT !.images_to_delete = data.images_to_delete] = data]_vars

\* get_images_to_delete listed the flash of both members of a stack and
\* recorded a plan that was not on record before
C20_Witness ==
    /\ Completed("get_images_to_delete")
    /\ InRun
    /\ ~data0.images_to_delete.present
    /\ data.images_to_delete.present
    /\ Cardinality({i \in 1..Len(runLog) : runLog[i].cmd = "show flash"}) = 2

(***************************************************************************)
(* The version matcher                                                     *)
(***************************************************************************)

\* versions with their components written out: plain MAJOR.MINOR.PATCH and
\* extended MAJOR.MINOR(PATCH)TRAIN NUM
PlainVersions ==
    { [text |-> V_SIMPLE, major |-> <<"1", "7">>, minor |-> <<"6">>, patch |-> <<"2">>],
      [text |-> <<"3", ".", "1", "1", ".", "1">>, major |-> <<"3">>, minor |-> <<"1", "1">>, patch |-> <<"1">>] }

ExtendedVersions ==
    { [text |-> V_EXT, major |-> <<"1", "5">>, minor |-> <<"2">>, patch |-> <<"4">>,
       train |-> <<"E">>, train_num |-> <<"6">>] }

\* target strings: the file names of the specification's examples, the
\* versions alone, with a zero-padded patch, followed by a further digit,
\* inside other text, in the other encoding, and near misses
MatchTargets ==
    { <<"a", "s", "r", "1", "0", "0", "0", "-", "r", "p", "b", "a", "s", "e", ".", "1", "7", ".", "6", ".", "0", "2", ".", "S", "P", "A", ".", "p", "k", "g">>,
      <<"c", "2", "9", "6", "0", "-", "l", "a", "n", "b", "a", "s", "e", "k", "9", "-", "m", "z", ".", "1", "5", "2", "-", "4", ".", "E", "6", ".", "b", "i", "n">>,
      <<"1", "7", ".", "6", ".", "2", "0">>,
      <<"1", "7", ".", "6", ".", "2">>,
      <<"1", "7", ".", "6", ".", "0", "2">>,
      <<"1", "7", ".", "6", ".", "0", "2", "0">>,
      <<"x", "1", "7", ".", "6", ".", "2", "y">>,
      <<"1", "7", ".", "6", ".", "2", "0", "-", "1", "7", ".", "6", ".", "2">>,
      <<"1", "7", ".", "1", "6", ".", "2">>,
      <<"7", ".", "6", ".", "2">>,
      <<"1", "5", ".", "2", "(", "4", ")", "E", "6">>,
      <<"1", "5", ".", "2", "(", "4", ")", "E", "7">>,
      <<"1", "5", "2", "-", "4", ".", "E">>,
      <<"1", "5", ".", "2", "-", "4", ".", "E", "6">>,
      <<"3", ".", "1", "1", ".", "1", "0">>,
      <<"3", ".", "1", "1", ".", "1">>,
      <<>> }

\* the literal occurs in the target and no digit follows the occurrence
OccursBeforeNoDigit(target, literal) ==
    \E i \in 1..Len(target) :
        /\ StartsAt(target, i, literal)
        /\ ~(i + Len(literal) <= Len(target) /\ target[i + Len(literal)] \in Digits)

\* the target contains MAJOR.MINOR.PATCH or MAJOR.MINOR.0PATCH, not followed
\* by a further digit
PlainVersionIn(v, target) ==
    \/ OccursBeforeNoDigit(target, v.major \o <<".">> \o v.minor \o <<".">> \o v.patch)
    \/ OccursBeforeNoDigit(target,
                           v.major \o <<".">> \o v.minor \o <<".", "0">> \o v.patch)

\* the target contains the parenthesised form or the hyphen-encoded form
\* MAJORMINOR-PATCH.TRAINNUM
ExtendedVersionIn(v, target) ==
    \/ Contains(target, v.text)
    \/ Contains(target, v.major \o v.minor \o <<"-">> \o v.patch \o <<".">>
                          \o v.train \o v.train_num)

\* the matcher agrees with the two rules on every version and target
MatcherAgrees ==
    /\ \A v \in PlainVersions : \A target \in MatchTargets \cup FlashFiles :
           _match_ios_version(v.text, target) <=> PlainVersionIn(v, target)
    /\ \A v \in ExtendedVersions : \A target \in MatchTargets \cup FlashFiles :
           _match_ios_version(v.text, target) <=> ExtendedVersionIn(v, target)

\* the version on record, with its components
RecordedVersion ==
    CHOOSE v \in PlainVersions \cup ExtendedVersions : v.text = data.ios_version

\* the recorded version is in the name, by the rule of its form
RecordedVersionIn(name) ==
    IF RecordedVersion \in PlainVersions
    THEN PlainVersionIn(RecordedVersion, name)
    ELSE ExtendedVersionIn(RecordedVersion, name)

\* the three examples of the specification: true, true, false
MatcherExamples ==
    /\ _match_ios_version(V_SIMPLE,
           <<"a", "s", "r", "1", "0", "0", "0", "-", "r", "p", "b", "a", "s", "e", ".",
             "1", "7", ".", "6", ".", "0", "2", ".", "S", "P", "A", ".", "p", "k", "g">>)
    /\ _match_ios_version(V_EXT,
           <<"c", "2", "9", "6", "0", "-", "l", "a", "n", "b", "a", "s", "e", "k", "9", "-",
             "m", "z", ".", "1", "5", "2", "-", "4", ".", "E", "6", ".", "b", "i", "n">>)
    /\ ~_match_ios_version(V_SIMPLE, <<"1", "7", ".", "6", ".", "2", "0">>)

\* C21: the version matcher is true for a plain version MAJOR.MINOR.PATCH
\* exactly when the target contains MAJOR.MINOR.PATCH or MAJOR.MINOR.0PATCH
\* not followed by a further digit, and for an extended version exactly when
\* the target contains the parenthesised or the hyphen-encoded form; the
\* three examples of the specification come out true, true and false; and
\* no image that get_images_to_delete plans to delete carries the version
\* on record.
C21_VersionMatcher ==
    /\ MatcherAgrees
    /\ MatcherExamples
    /\ (Completed("get_images_to_delete") /\ data.images_to_delete.present)
           => \A name \in data.images_to_delete.v : ~RecordedVersionIn(name)

\* get_images_to_delete planned the cleanup of a stack that runs the image
\* named after the plain version on record, and kept that image out of a
\* plan that is not empty
C21_Witness ==
    /\ Completed("get_images_to_delete")
    /\ data.ios_version = V_SIMPLE
    /\ \E name \in ListedNames : RecordedVersionIn(name)
    /\ data.images_to_delete.v # {}

(***************************************************************************)
(* Reload and boot statement                                               *)
(***************************************************************************)

\* the number two decimal digits write (100: not two digits)
TwoDigits(a, b) ==
    IF a \in Digits /\ b \in Digits THEN 10 * DigitValue(a) + DigitValue(b) ELSE 100

\* "HH:MM DD MON": hour 00-23, minute 00-59, a day of two digits and a
\* month abbreviation, separated by single blanks, the day within the month
HasReloadForm(s) ==
    /\ Len(s) = 12
    /\ TwoDigits(s[1], s[2]) <= 23
    /\ s[3] = ":"
    /\ TwoDigits(s[4], s[5]) <= 59
    /\ s[6] = " "
    /\ TwoDigits(s[7], s[8]) <= 31
    /\ s[9] = " "
    /\ SubSeq(s, 10, 12) \in MonthNames
    /\ SubSeq(s, 10, 12) \in {<<"a", "p", "r">>, <<"j", "u", "n">>, <<"s", "e", "p">>,
                              <<"n", "o", "v">>} => TwoDigits(s[7], s[8]) <= 30
    /\ SubSeq(s, 10, 12) = <<"f", "e", "b">> => TwoDigits(s[7], s[8]) <= 29

\* the validator accepts exactly the values of that form
DatesAgree ==
    \A time \in ReloadDates :
        validate_reload_date(time) <=> HasReloadForm(lower(strip(time)))

\* the value the last set-reload command scheduled
Scheduled ==
    /\ lastOp = "set_reload"
    /\ runLog # <<>>

\* C22: validate_reload_date accepts a value exactly when, trimmed and in
\* lower case, it has the form HH:MM DD MON with the day within the month;
\* so every value the set-reload command schedules has that form
C22_AcceptsExactlyTheForm ==
    /\ DatesAgree
    /\ Scheduled => HasReloadForm(lower(strip(runLog[1].file)))

\* C23: when set_reload has sent the schedule command and the command
\* succeeded, the host state has reload_set = true and reload_time equal to
\* the scheduled value
C23_ScheduledReloadIsRecorded ==
    (Scheduled /\ outcome = "task_ok")
        => /\ data.reload_set = "True"
           /\ data.reload_time = runLog[1].file

\* the step sends "reload cancel"
CancelSent ==
    \E i \in 1..Len(runLog') : runLog'[i].cmd = "reload cancel"

\* C24: cancel_reload_at_target sends "reload cancel" only to a host whose
\* recorded is_at_target is true; with is_at_target false or missing it
\* sends nothing
C24_CancelOnlyAtTarget ==
    [][ lastOp' = "cancel_reload_at_target"
            => /\ CancelSent => data.is_at_target = "True"
               /\ data.is_at_target # "True" => runLog' = <<>> /\ dev' = dev ]_vars

\* a reload scheduled with --force on a host at target has been cancelled
C24_Witness ==
    /\ lastOp = "cancel_reload_at_target"
    /\ outcome = "task_ok"
    /\ runLog # <<>>
    /\ data.is_at_target = "True"
    /\ data.reload_time # ABSENT_S
    /\ dev.reload_at = ABSENT_S

\* C25: on a host that is not at target and whose reload_time set_reload
\* recorded, verify_reload re-reads the reload status of the device
\* ("show reload") and, when the device reports no reload, leaves
\* reload_set = false
C25_VerifyReloadReconciles ==
    [][ ( /\ lastOp' = "verify_reload"
          /\ data.is_at_target = "False"
          /\ data.reload_time # ABSENT_S
          /\ ~Truthy(data.reload_set)
          /\ ~envFault' )
            => /\ \E i \in 1..Len(runLog') : runLog'[i].cmd = "show reload"
               /\ dev.reload_at = ABSENT_S => data'.reload_set = "False" ]_vars

BootStatementTasks ==
    {"set_switch_boot_statement", "set_router_boot_statement"}

\* the step pushed the boot statement, saved the configuration and read the
\* boot statement back, without an error
PushedSavedVerified ==
    /\ Len(runLog') = 3
    /\ runLog'[1] = BootCmd(data.primary_image)
    /\ runLog'[2] = SaveCmd
    /\ runLog'[3].cmd \in {"show boot system", "show bootvar"}
    /\ outcome' = "task_ok"
    /\ ~envFault'

\* C26: the switch and the router task set boot_statement_set to true only
\* in a run that pushed the boot statement, saved the configuration without
\* error and found the primary image in the boot statement it read back; if
\* the save fails or the primary image is not found the flag stays as it was
C26_BootStatementSetOnlyWhenVerified ==
    [][ lastOp' \in BootStatementTasks
            => /\ data'.boot_statement_set \in {data.boot_statement_set, "True"}
               /\ data'.boot_statement_set # data.boot_statement_set
                      => PushedSavedVerified /\ data.primary_image \in dev'.boot
               /\ (envFault' \/ outcome' = "task_failed"
                     \/ data.primary_image \notin dev'.boot)
                      => data'.boot_statement_set = data.boot_statement_set
               /\ [data' EXCEPT !.boot_statement_set = "ABSENT"]
                      = [data EXCEPT !.boot_statement_set = "ABSENT"] ]_vars

\* the boot statement of a stack was set and verified; on another host the
\* push was saved but the device did not take it and the flag stayed unset
C26_Witness ==
    /\ lastOp = "set_switch_boot_statement"
    /\ outcome = "task_ok"
    /\ data.boot_statement_set = "True"
    /\ data.primary_image \in dev.boot
    /\ Len(runLog) = 3

(***************************************************************************)
(* Workers of distinct hosts                                               *)
(***************************************************************************)

\* the hosts whose state the step changes
ChangedHosts ==
    {h \in FleetHosts : StateOf(h)' # StateOf(h)}

\* what host h has recorded is what its own device answers, as in a run of
\* the host alone
RecordedFromOwnDevice(h) ==
    LET s == StateOf(h)
    IN  /\ s.data.stack_info.present
               => s.data.stack_info
                    = IF s.host.is_router \/ s.dev.show_switch.is_str
                      THEN NotAStack
                      ELSE StackInfoFrom(s.dev.show_switch.stack)
        /\ s.data.current_image \in {ABSENT_S, s.dev.running}
        /\ s.data.ios_version \in {ABSENT_S, s.dev.os_version}
        /\ s.data.is_at_target
               \in {"ABSENT", IsAtTargetValue(s.data.primary_image, s.dev.running)}
        /\ s.data.primary_image_in_flash = "True"
               => s.data.primary_image \in s.dev.flash["1"]
        /\ s.pc # "idle" => s.data.auth_status = s.data0.auth_status

ChecksOf(h, pass) ==
    {i \in 1..Len(tacacs.log) : tacacs.log[i].host = h /\ tacacs.log[i].pass = pass}

\* the first pass is over: every host has been checked once
FirstPassOver ==
    \A h \in TacacsHosts : ChecksOf(h, "first") # {}

\* auth_status of h after the first pass
AfterFirstPass(h) ==
    tacacs.log[CHOOSE i \in ChecksOf(h, "first") : TRUE].auth

\* the hosts the second pass has been handed: checked already or waiting
SecondPassHosts ==
    {h \in TacacsHosts : ChecksOf(h, "second") # {}}
        \cup (IF tacacs.phase = "second" THEN tacacs.pending ELSE {})

\* C28: a check of the second pass comes after the first check of every
\* host; the second pass is handed exactly the hosts whose auth_status is
\* not true after the first pass; a host that authenticated in the first
\* pass is checked once and keeps its credentials; when every host
\* authenticated there is no second pass
C28_SecondPassOnlyForFailedHosts ==
    /\ \A i \in 1..Len(tacacs.log) :
          tacacs.log[i].pass = "second"
              => \A h \in TacacsHosts : \E j \in ChecksOf(h, "first") : j < i
    /\ \A h \in TacacsHosts :
          /\ Cardinality(ChecksOf(h, "first")) <= 1
          /\ Cardinality(ChecksOf(h, "second")) <= 1
    /\ tacacs.phase = "second" => FirstPassOver
    /\ SecondPassHosts # {} =>
          /\ FirstPassOver
          /\ SecondPassHosts = {h \in TacacsHosts : AfterFirstPass(h) # "True"}
    /\ (FirstPassOver /\ tacacs.phase # "first") =>
          \A h \in TacacsHosts :
             AfterFirstPass(h) = "True"
                 => /\ h \notin SecondPassHosts
                    /\ tacacs.user[h] = tacacs.log[CHOOSE i \in ChecksOf(h, "first") : TRUE].user
    /\ (FirstPassOver /\ \A h \in TacacsHosts : AfterFirstPass(h) = "True")
          => tacacs.phase # "second" /\ SecondPassHosts = {}

\* a finished run in which sw1 authenticated at once and kept its
\* credentials, sw2 authenticated in the second pass with the v1
\* credentials, and rtr1 failed twice
C28_Witness ==
    /\ tacacs.phase = "idle"
    /\ Len(tacacs.log) = 5
    /\ ChecksOf("sw1", "second") = {}
    /\ tacacs.user = [h \in TacacsHosts |-> IF h = "sw1" THEN "v2" ELSE "v1"]
    /\ tacacs.auth = [h \in TacacsHosts |-> IF h = "rtr1" THEN "False" ELSE "True"]
    /\ tacacs.log[1].host = "rtr1"

(***************************************************************************)
(* The fields of the host state                                            *)
(***************************************************************************)

\* the keys of host.data the tasks write
HostStateKeys ==
    DOMAIN EmptyData

\* the keys that are in host.data
PresentKeys(d) ==
    {name \in HostStateKeys : FieldPresent(d, name)}

C30_AtTargetMeansCurrentIsPrimary ==
    data.is_at_target = "True" => data.current_image = data.primary_image

(***************************************************************************)
(* The hostname check and the commands of a run                            *)
(***************************************************************************)

\* C31: unless skip_dns_check is given, a run of the upgrade workflow has
\* sent no command to the device while the host's hostname is not verified
\* (hostname_verified = true); the read of the device's facts by which the
\* hostname check itself verifies is not counted.  This includes the MD5
\* verification done by the completed-transfer check.
C31_NoCommandBeforeHostnameVerified ==
    (InRun /\ ~skip_dns_check /\ data.hostname_verified # "True")
        => \A i \in 1..Len(runLog) : runLog[i].cmd = "get_facts"

(***************************************************************************)
(* The cleanup of a recorded plan                                          *)
(***************************************************************************)

\* C32: when delete_unused_images has run on a host whose images_to_delete
\* and stack_info are recorded, it completed without error and sent one
\* delete command for every recorded image that is neither primary_image
\* nor current_image, on every listed flash (one per stack member).
C32_DeleteRunsThePlan ==
    (/\ lastOp = "delete_unused_images"
     /\ data.images_to_delete.present
     /\ data.stack_info.present)
        => /\ ~exc
           /\ outcome # "task_failed"
           /\ {runLog[i] : i \in Sent("delete")}
                 = {DeleteCmds(data)[j] : j \in 1..Len(DeleteCmds(data))}

(***************************************************************************)
(* The MD5 verification                                                    *)
(***************************************************************************)

\* the verify commands the last step sent
VerifySent ==
    SelectSeq(NewCommands, LAMBDA c : c.cmd = "verify /md5")

\* the device failed in the last step: a command failed or a checksum was
\* not the expected one
StepFault ==
    IF pc' = "idle" THEN envFault' ELSE ~envFault /\ envFault'

\* C33: after verify_md5 has run past its prerequisite check (it sent a
\* verify command), primary_image_md5_verified is true or false, and it is
\* true only if a verify command was sent for the single flash, or for the
\* flash of every stack member, each of these flashes holds the primary
\* image and the device did not fail; if a member fails, or a forced
\* verification fails, the flag is false whatever it was before.
C33_VerifiedOnlyWhenEveryFlashVerifies ==
    [][VerifySent # <<>>
          => /\ data'.primary_image_md5_verified \in {"True", "False"}
             /\ data'.primary_image_md5_verified = "True"
                   => /\ VerifySent = VerifyCmds(ListedFlashes(data.stack_info),
                                                 Len(ListedFlashes(data.stack_info)),
                                                 data.primary_image)
                      /\ \A i \in 1..Len(VerifySent) :
                            data.primary_image \in FlashOf(VerifySent[i].flash)
                      /\ pc' = "idle" => ~envFault'
                      /\ pc' # "idle" => envFault' = envFault
             /\ StepFault => data'.primary_image_md5_verified = "False"]_vars

\* verify_md5, run from the command line on a stack whose primary image is
\* recorded as in flash, sent a verify command for every member, was
\* answered with a wrong checksum and left the flag false
C33_Witness ==
    /\ pc = "idle"
    /\ lastOp = "verify_md5"
    /\ outcome = "task_ok"
    /\ envFault
    /\ data.stack_info.is_stack = "True"
    /\ Len(runLog) = Len(data.stack_info.members)
    /\ data.primary_image_in_flash = "True"
    /\ data.primary_image_md5_verified = "False"

(***************************************************************************)
(* The day of a reload date                                                *)
(***************************************************************************)

\* the day of the month a value "HH:MM DD MON" names (100: not two digits)
DayOf(s) ==
    IF Len(s) >= 8 THEN TwoDigits(s[7], s[8]) ELSE 100

\* C34: validate_reload_date rejects every value whose day of the month is
\* not the number of a calendar day (1 to 31), in particular the day "00";
\* so no set-reload command schedules a reload for such a day.
C34_RejectsDayZero ==
    Scheduled => DayOf(lower(strip(runLog[1].file))) \in 1..31

(***************************************************************************)
(* The two flags of a completed transfer                                   *)
(***************************************************************************)

\* a verified checksum is the checksum of a file recorded as in flash
VerifiedIsInFlash(d) ==
    d.primary_image_md5_verified = "True" => d.primary_image_in_flash = "True"

\* C35: in every host state a run of the upgrade workflow reaches,
\* primary_image_md5_verified = true implies primary_image_in_flash = true
\* (given that it held in the host state the run started with, as it does
\* in the empty host state and after every earlier run).
C35_VerifiedImpliesInFlash ==
    (InRun /\ VerifiedIsInFlash(data0)) => VerifiedIsInFlash(data)

\* the checkpoint after the flash check of a run verified the checksum on
\* every member of a stack, in a run that started with nothing verified
C35_Witness ==
    /\ InRun
    /\ lastOp = "has_completed_transfer_2"
    /\ data0.primary_image_md5_verified # "True"
    /\ data0.primary_image_in_flash # "True"
    /\ data.primary_image_md5_verified = "True"
    /\ data.primary_image_in_flash = "True"
    /\ \E i \in 1..Len(trace) : trace[i] = "verify_md5"

(***************************************************************************)
(* SSH bulk mode                                                           *)
(***************************************************************************)

\* C37: after supports_ssh_bulk_mode has run on a host whose model contains
\* "2960", supports_ssh_bulk_mode is false, and for every other host it is
\* true; once it is recorded as false for a 2960, enable_ssh_bulk_mode and
\* disable_ssh_bulk_mode send no configuration command to the host.
C37_NoBulkModeOn2960 ==
    /\ lastOp = "supports_ssh_bulk_mode"
          => data.supports_ssh_bulk_mode = IF host.model2960 THEN "False" ELSE "True"
    /\ (/\ lastOp \in {"enable_ssh_bulk_mode", "disable_ssh_bulk_mode"}
        /\ host.model2960
        /\ data.supports_ssh_bulk_mode # "ABSENT")
          => runLog = <<>>

(***************************************************************************)
(* The result of a credential check                                        *)
(***************************************************************************)

\* C38: after check_credentials has run on a host, auth_status is true
\* exactly when that attempt opened the connection; a host whose attempt
\* failed, by an authentication failure or by another error, does not keep
\* auth_status = true from an earlier attempt.
C38_AuthStatusIsTheLastAttempt ==
    \A i \in 1..Len(tacacs.log) :
        tacacs.log[i].auth = "True" <=> tacacs.log[i].result = "opened"

(***************************************************************************)
(* check_no_reload                                                         *)
(***************************************************************************)

\* C39: after check_no_reload has run on a host with is_at_target recorded
\* and read the reload status, reload_set is false when the device has no
\* reload scheduled and true when it has one
C39_ReloadSetIsTheSchedule ==
    ( /\ lastOp = "check_no_reload"
      /\ outcome = "task_ok"
      /\ ~envFault
      /\ data0.is_at_target \in {"True", "False"} )
        => /\ dev.reload_at = ABSENT_S => data.reload_set = "False"
           /\ dev.reload_at # ABSENT_S => data.reload_set = "True"

(***************************************************************************)
(* The copy of the image to the members of a stack                         *)
(***************************************************************************)

\* the positions of the copy commands the step sends
CopiesSent ==
    {i \in 1..Len(NewCommands) : NewCommands[i].kind = "copy"}

\* the members target_in_flash lists when the step starts
ListedInFlash ==
    {data.stack_info.target_in_flash.l[k] :
        k \in 1..Len(data.stack_info.target_in_flash.l)}

\* C40: a copy command of copy_image_to_stack goes to a member of the stack
\* that is neither the master nor listed in target_in_flash, with the
\* master's flash as the source and the primary image as the file, and no
\* member gets two; on a host that is not a stack the task sends no command
\* and leaves the host state and the flash as they are
C40_CopiesOnlyToTheOtherMembers ==
    [][ lastOp' = "copy_image_to_stack"
            => /\ \A i \in CopiesSent :
                    LET c == NewCommands[i]
                    IN  /\ data.stack_info.is_stack = "True"
                        /\ \E k \in 1..Len(data.stack_info.members) :
                              c.flash = stack_flash_format(data.stack_info.members[k])
                        /\ c.flash # stack_flash_format(data.stack_info.master)
                        /\ c.flash[2] \notin ListedInFlash
                        /\ c.guard = <<stack_flash_format(data.stack_info.master)>>
                        /\ c.file = data.primary_image
                        /\ \A j \in CopiesSent : NewCommands[j].flash = c.flash => j = i
               /\ data.stack_info.is_stack # "True"
                    => NewCommands = <<>> /\ data' = data /\ dev' = dev ]_vars

\* copy_image_to_stack has copied the image from the master of a stack of
\* three to its two other members
C40_Witness ==
    /\ lastOp = "copy_image_to_stack"
    /\ outcome = "task_ok"
    /\ data.stack_info.is_stack = "True"
    /\ Len(data.stack_info.members) = 3
    /\ Cardinality({i \in 1..Len(runLog) : runLog[i].kind = "copy"}) = 2
    /\ \A m \in MemberIds : data.primary_image \in dev.flash[m]

=============================================================================
